---- MODULE Spec2Model ----
(***************************************************************************)
(* A model of the Markdown-to-ANSI renderer of executive-ai-assistant      *)
(* (src/unnamed/part_010, the remark/shiki renderer with its marked        *)
(* fallback): the module state (initialized flag, parser and highlighter   *)
(* singletons, the two LRU maps), the asynchronous steps of a render call, *)
(* the cache maintenance entry points, and the tree walker with its        *)
(* layout functions.                                                       *)
(*                                                                         *)
(* Strings.  A JavaScript string is modelled by the sequence of its        *)
(* '\n'-separated lines (what s.split('\n') returns), each line being the  *)
(* sequence of its characters.  A character is a one-element TLA+ string;  *)
(* an SGR escape sequence (what chalk emits) is one zero-width character   *)
(* such as "<b>", and the box-drawing characters have ASCII names.  The    *)
(* Markdown input, which is hashed character by character, is a flat       *)
(* sequence of characters.                                                 *)
(***************************************************************************)
EXTENDS Integers, Sequences, FiniteSets, TLC

VARIABLES
    initialized,        \* part_010:7
    parserProcessor,    \* part_010:8   (null, or the object of the call that built it)
    shikiHighlighter,   \* part_010:9   (likewise)
    shikiAnsi,          \* part_010:10  (likewise)
    cachedChalk,        \* part_010:4   (FALSE while null)
    cachedWidth,        \* part_010:3
    astCache,           \* part_010:15  (a Map: entries in insertion order)
    renderCache,        \* part_010:16
    calls,              \* the render calls: position and locals of each
    last,               \* history: the latest cache section or maintenance call
    clock,              \* history: number of cache accesses so far
    astUse,             \* history: key -> clock of its last read hit or write
    renderUse,          \* history: key -> clock of its last read hit or write
    parserBuilds,       \* history: how often line 58 constructed a parser
    highlighterStarts,  \* history: how often line 64 called createHighlighter
    layIn,              \* walker input (tree, width, columns) of LayoutSpec
    layOut,             \* walker output of LayoutSpec
    hlOut,              \* what the highlighter returned for the code block of layIn
    variant,            \* AgentRunner.run: the build and the inputs of the run
    maxSteps,           \* this.maxSteps
    runPc,              \* the await the run is suspended at
    step,               \* the loop variable of part_005:24
    messages,           \* the conversation (part_005:16)
    toolCalls,          \* the tool calls of the response at hand (part_005:28)
    pending,            \* those of them the loop of part_005:31 has yet to visit
    runResult,          \* what run returned
    llmCalls,           \* history: calls of llm.chat
    toolRuns,           \* history: calls of a tool's execute
    toolResponses,      \* history: responses of the LLM that held tool calls
    stepBase,           \* history: length of the conversation when the step began
    stdoutColumns,      \* App.tsx: stdout.columns
    termWidth,          \* App.tsx:15  (React state)
    history,            \* App.tsx:12  (React state)
    busy,               \* App.tsx:14  (React state)
    submitPc,           \* the await submit is suspended at
    submitCall,         \* the render call submit awaits (App.tsx:35)
    jobs,               \* the re-renders of App.tsx:75-85 that have not settled
    submits,            \* history: how often submit went past line 24
    tokIn,              \* a token of the highlighter (part_010:104)
    tokOut,             \* what line 117 returns for it
    cli                 \* CliProvider.chat: its position, the process, its result

vars == <<initialized, parserProcessor, shikiHighlighter, shikiAnsi, cachedChalk,
          cachedWidth, astCache, renderCache, calls, last, clock, astUse, renderUse,
          parserBuilds, highlighterStarts, layIn, layOut, hlOut,
          variant, maxSteps, runPc, step, messages, toolCalls, pending, runResult,
          llmCalls, toolRuns, toolResponses, stepBase,
          stdoutColumns, termWidth, history, busy, submitPc, submitCall, jobs, submits,
          tokIn, tokOut, cli>>

\* null; an object is <<c>>, c being the call that made it
Null == <<>>

(***************************************************************************)
(* Bounds of the model.                                                    *)
(***************************************************************************)
MaxCalls == 2          \* render calls of one behaviour

(***************************************************************************)
(* Sequences and strings.                                                  *)
(***************************************************************************)
Max(a, b) == IF a >= b THEN a ELSE b
Min(a, b) == IF a <= b THEN a ELSE b

\* the concatenation of the sequences of ss (the test on the sequence so far
\* only makes the evaluation proceed element by element)
Flatten(ss) ==
    LET upTo[i \in 0..Len(ss)] ==
            IF i = 0 THEN <<>>
            ELSE LET sofar == upTo[i - 1]
                 IN  IF Len(sofar) < 0 THEN sofar ELSE sofar \o ss[i]
    IN  upTo[Len(ss)]

Repeat(ch, n) == [i \in 1..Max(0, n) |-> ch]

\* '' and the string of one line
EmptyStr == << <<>> >>
Str(line) == <<line>>

\* a + b for two strings: the last line of a continues with the first of b
Concat(a, b) ==
    SubSeq(a, 1, Len(a) - 1) \o <<a[Len(a)] \o b[1]>> \o Tail(b)

\* strs.join('\n'), strs.join('\n\n')
JoinNL(strs) == IF strs = <<>> THEN EmptyStr ELSE Flatten(strs)
RECURSIVE JoinBlank(_)
JoinBlank(strs) ==
    IF strs = <<>> THEN EmptyStr
    ELSE IF Len(strs) = 1 THEN strs[1]
    ELSE strs[1] \o << <<>> >> \o JoinBlank(Tail(strs))

(***************************************************************************)
(* ANSI escapes, strip-ansi and string-width.                              *)
(***************************************************************************)
AnsiOpen == {"<b>", "<i>", "<u>", "<yellow>", "<cyan>", "<blue>", "<green>",
             "<gray>", "<hex>"}
AnsiClose == {"</b>", "</i>", "</u>", "</fg>"}
IsAnsi(ch) == ch \in AnsiOpen \cup AnsiClose

\* stripAnsi(line): the escapes are removed, everything else is kept
StripAnsi(line) == SelectSeq(line, LAMBDA ch : ~IsAnsi(ch))

\* stringWidth(line): columns of a line whose characters are all one column wide
StringWidth(line) == Len(StripAnsi(line))

\* chalk.<style>(s): '' stays '', otherwise every line is opened and closed
Chalk(open, close, s) ==
    IF s = EmptyStr THEN s
    ELSE [i \in 1..Len(s) |-> <<open>> \o s[i] \o <<close>>]

(***************************************************************************)
(* hashKey (part_010:132-141): djb2 kept to 32 bits.  A 32-bit value is    *)
(* held as <<high, low>>, its two 16-bit halves, so that no intermediate   *)
(* exceeds the integers of the model checker; the result is the unsigned   *)
(* value written in hexadecimal without leading zeros.                     *)
(***************************************************************************)
\* the characters of code 32 .. 126, in order (code 96 by name)
Ascii ==
  <<
    " ", "!", "\"", "#", "$", "%", "&", "'", "(", ")", "*", "+",
    ",", "-", ".", "/", "0", "1", "2", "3", "4", "5", "6", "7",
    "8", "9", ":", ";", "<", "=", ">", "?", "@", "A", "B", "C",
    "D", "E", "F", "G", "H", "I", "J", "K", "L", "M", "N", "O",
    "P", "Q", "R", "S", "T", "U", "V", "W", "X", "Y", "Z", "[",
    "\\", "]", "^", "_", "BACKTICK", "a", "b", "c", "d", "e", "f", "g",
    "h", "i", "j", "k", "l", "m", "n", "o", "p", "q", "r", "s",
    "t", "u", "v", "w", "x", "y", "z", "{", "|", "}", "~"
  >>

\* str.charCodeAt(i)
CharCode(ch) == 31 + CHOOSE i \in 1..Len(Ascii) : Ascii[i] = ch

HexDigit == <<"0", "1", "2", "3", "4", "5", "6", "7", "8", "9",
              "a", "b", "c", "d", "e", "f">>

\* one round of the loop: hash = ((hash << 5) + hash) + code; hash |= 0
HashStep(h, code) ==
    LET t == h[2] * 33 + code
    IN  << (h[1] * 33 + (t \div 65536)) % 65536, t % 65536 >>

\* the loop of lines 135-138 from the value h on (the test on the value so
\* far only makes the evaluation proceed round by round)
HashFrom(h, str) ==
    LET after[i \in 0..Len(str)] ==
            IF i = 0 THEN h
            ELSE LET sofar == after[i - 1]
                 IN  IF sofar[1] < 0 THEN sofar ELSE HashStep(sofar, CharCode(str[i]))
    IN  after[Len(str)]

\* the four hexadecimal digits of a 16-bit half
Hex4(n) == << HexDigit[(n \div 4096) + 1], HexDigit[((n \div 256) % 16) + 1],
              HexDigit[((n \div 16) % 16) + 1], HexDigit[(n % 16) + 1] >>

RECURSIVE DropZeros(_)
DropZeros(ds) ==
    IF Len(ds) > 1 /\ Head(ds) = "0" THEN DropZeros(Tail(ds)) ELSE ds

\* (hash >>> 0).toString(16)
ToHex(h) == DropZeros(Hex4(h[1]) \o Hex4(h[2]))

hashKey(str) == ToHex(HashFrom(<<0, 5381>>, str))

(***************************************************************************)
(* Template-literal conversion of a number, and the render-cache key.      *)
(***************************************************************************)
RECURSIVE NatDigits(_)
NatDigits(n) ==
    IF n < 10 THEN <<HexDigit[n + 1]>> ELSE NatDigits(n \div 10) \o <<HexDigit[(n % 10) + 1]>>

\* String(n) for an integer n, as a template literal converts it
NumToString(n) == IF n < 0 THEN <<"-">> \o NatDigits(-n) ELSE NatDigits(n)

\* getWidthBucket: Math.round(width / 10) * 10; Math.round rounds halves up
getWidthBucket(width) == ((width + 5) \div 10) * 10

ThemeSuffix == <<":", "g", "i", "t", "h", "u", "b", "-", "d", "a", "r", "k",
                 ":", "f", "a", "l", "s", "e">>

\* the key of line 170 without the bucket of the width
cacheKeyNoBucket(astKey, width) == astKey \o ThemeSuffix

\* astKey + ':' + getWidthBucket(width) + ':github-dark:false'  (part_010:170)
cacheKey(astKey, width) ==
    astKey \o <<":">> \o NumToString(getWidthBucket(width)) \o ThemeSuffix

\* key.includes(pat)
Includes(key, pat) ==
    \E i \in 1..(Len(key) - Len(pat) + 1) : SubSeq(key, i, i + Len(pat) - 1) = pat

(***************************************************************************)
(* A JavaScript Map: its entries in insertion order.                       *)
(***************************************************************************)
MapKeySet(map) == {map[i].k : i \in 1..Len(map)}
MapHas(map, key) == \E i \in 1..Len(map) : map[i].k = key
MapIndex(map, key) == CHOOSE i \in 1..Len(map) : map[i].k = key
MapGet(map, key) == map[MapIndex(map, key)].v
MapDelete(map, key) == SelectSeq(map, LAMBDA e : e.k # key)
\* map.set: an existing key keeps its place, a new key goes last
MapSet(map, key, value) ==
    IF MapHas(map, key)
    THEN [map EXCEPT ![MapIndex(map, key)] = [k |-> key, v |-> value]]
    ELSE Append(map, [k |-> key, v |-> value])

\* lruGet without lines 22-23: a hit leaves the key where it stands
lruGetNoRefresh(map, key) ==
    IF MapHas(map, key)
    THEN [found |-> TRUE, val |-> MapGet(map, key), map |-> map]
    ELSE [found |-> FALSE, val |-> <<>>, map |-> map]

\* lruGet (part_010:18-26): found is val !== undefined, map is the map afterwards
lruGet(map, key) ==
    IF MapHas(map, key)
    THEN LET val == MapGet(map, key)
         IN  [found |-> TRUE, val |-> val, map |-> MapSet(MapDelete(map, key), key, val)]
    ELSE [found |-> FALSE, val |-> <<>>, map |-> map]

\* lruSet without lines 31-34: nothing is evicted
lruSetNoEvict(map, key, value, max) ==
    MapSet(IF MapHas(map, key) THEN MapDelete(map, key) ELSE map, key, value)

\* lruSet (part_010:28-35): the map afterwards
lruSet(map, key, value, max) ==
    LET m1 == IF MapHas(map, key) THEN MapDelete(map, key) ELSE map
        m2 == MapSet(m1, key, value)
    IN  IF Len(m2) > max THEN MapDelete(m2, m2[1].k) ELSE m2

MAX_AST_CACHE == 100
MAX_RENDER_CACHE == 50

\* the width of a call without one, on an output without columns (part_010:448)
DefaultWidth == 80

(***************************************************************************)
(* wrap-ansi and slice-ansi, the packages part_010:153-160 imports, as     *)
(* the walker calls them: always with trim: false and wordWrap: true,      *)
(* hard: false for prose and hard: true inside a code box.  The escapes    *)
(* wrap-ansi re-emits around the line breaks it inserts have no width and  *)
(* are left out.                                                           *)
(***************************************************************************)
\* line.split(' '): the pieces between the blanks, the k-th blank being the
\* one with k - 1 blanks before it
SplitSpaces(line) ==
    LET blanks == {i \in 1..Len(line) : line[i] = " "}
        n == Cardinality(blanks)
        before == [p \in blanks |-> Cardinality({q \in blanks : q < p})]
        at == [k \in 0..(n + 1) |->
                  IF k = 0 THEN 0
                  ELSE IF k = n + 1 THEN Len(line) + 1
                  ELSE CHOOSE p \in blanks : before[p] = k - 1]
    IN  [k \in 1..(n + 1) |-> SubSeq(line, at[k - 1] + 1, at[k] - 1)]

\* rows[rows.length - 1] += piece
AddToLast(rows, piece) == [rows EXCEPT ![Len(rows)] = @ \o piece]

\* wrapWord(rows, word, columns): one round of the loop over the characters,
\* for the character ch; visible is the width of the last row so far, more
\* says that ch is not the last character
WrapWordStep(st, ch, columns, more) ==
    LET w == IF IsAnsi(ch) THEN 0 ELSE 1
        fits == st.visible + w <= columns
        r1 == IF fits THEN AddToLast(st.rows, <<ch>>) ELSE Append(st.rows, <<ch>>)
        v1 == (IF fits THEN st.visible ELSE 0) + w
    IN  IF ~IsAnsi(ch) /\ v1 = columns /\ more
        THEN [rows |-> Append(r1, <<>>), visible |-> 0]
        ELSE [rows |-> r1, visible |-> v1]

\* the loop (the test on the rows so far only makes the evaluation proceed
\* round by round)
WrapWordLoop(rows, word, columns) ==
    LET after[i \in 0..Len(word)] ==
            IF i = 0 THEN [rows |-> rows, visible |-> StringWidth(rows[Len(rows)])]
            ELSE LET sofar == after[i - 1]
                 IN  IF sofar.rows = <<>> THEN sofar
                     ELSE WrapWordStep(sofar, word[i], columns, i < Len(word))
    IN  after[Len(word)]

\* the lines after the loop: a last row that holds escapes only joins the
\* row before it
WrapWordEnd(end) ==
    IF end.visible = 0 /\ Len(end.rows[Len(end.rows)]) > 0 /\ Len(end.rows) > 1
    THEN AddToLast(SubSeq(end.rows, 1, Len(end.rows) - 1), end.rows[Len(end.rows)])
    ELSE end.rows

wrapWord(rows, word, columns) == WrapWordEnd(WrapWordLoop(rows, word, columns))

\* exec(line, columns, {hard, trim: false, wordWrap: true}): one round of the
\* loop over the words, for the word of index i (1-based)
WrapExecStep(rows, word, columns, hard, i) ==
    LET len == StringWidth(word)
        full == i # 1 /\ StringWidth(rows[Len(rows)]) >= columns
        r1 == IF full THEN Append(rows, <<>>) ELSE rows
        r2 == IF i # 1 THEN AddToLast(r1, <<" ">>) ELSE r1
        rowLength == StringWidth(r2[Len(r2)])
    IN  IF hard /\ len > columns
        THEN LET remainingColumns == columns - rowLength
                 breaksStartingThisLine ==
                     1 + ((len - remainingColumns - 1) \div columns)
                 breaksStartingNextLine == (len - 1) \div columns
                 r3 == IF breaksStartingNextLine < breaksStartingThisLine
                       THEN Append(r2, <<>>) ELSE r2
             IN  wrapWord(r3, word, columns)
        ELSE LET r3 == IF rowLength + len > columns /\ rowLength > 0 /\ len > 0
                       THEN Append(r2, <<>>) ELSE r2
             IN  AddToLast(r3, word)

\* the rows after every round, rows = [''] before the first (rows is never
\* empty: the test only makes the evaluation proceed round by round)
WrapExec(words, columns, hard) ==
    LET rowsAfter[i \in 0..Len(words)] ==
            IF i = 0 THEN << <<>> >>
            ELSE LET rows == rowsAfter[i - 1]
                 IN  IF rows = <<>> THEN rows
                     ELSE WrapExecStep(rows, words[i], columns, hard, i)
    IN  rowsAfter[Len(words)]

\* wrapAnsi(s, columns, {hard, trim: false, wordWrap: true})
wrapAnsi(s, columns, hard) ==
    Flatten([i \in 1..Len(s) |->
                WrapExec(SplitSpaces(s[i]), columns, hard)])

\* sliceAnsi(line, 0, n): the first n columns, with the escapes met on the
\* way: a character is kept while fewer than n columns stand before it
sliceAnsi(line, n) ==
    LET keep == {i \in 1..Len(line) :
                    Cardinality({j \in 1..(i - 1) : ~IsAnsi(line[j])}) < n}
    IN  SubSeq(line, 1, Cardinality(keep))

(***************************************************************************)
(* The document tree (mdast).  Every node is a record of the same shape:   *)
(* value is a string, children a sequence of nodes, lang the characters of *)
(* a code node's language (<<>> for null), start <<n>> or <<>> for null.   *)
(***************************************************************************)
Node(type, value, children) ==
    [type |-> type, value |-> value, children |-> children, hasChildren |-> TRUE,
     depth |-> 0, lang |-> <<>>, ordered |-> FALSE, start |-> <<>>]
Leaf(type, value) == [Node(type, value, <<>>) EXCEPT !.hasChildren = FALSE]
Text(line) == Leaf("text", Str(line))
Paragraph(line) == Node("paragraph", EmptyStr, <<Text(line)>>)
Heading(depth, line) == [Node("heading", EmptyStr, <<Text(line)>>) EXCEPT !.depth = depth]
Blockquote(children) == Node("blockquote", EmptyStr, children)
ListItem(children) == Node("listItem", EmptyStr, children)
BulletList(items) == Node("list", EmptyStr, items)
OrderedList(start, items) ==
    [Node("list", EmptyStr, items) EXCEPT !.ordered = TRUE, !.start = <<start>>]
Code(lang, value) == [Leaf("code", value) EXCEPT !.lang = lang]
Root(children) == Node("root", EmptyStr, children)

TextLang == <<"t", "e", "x", "t">>

(***************************************************************************)
(* The theme of the render context (part_010:177-191).                     *)
(***************************************************************************)
ThemeStrong(s) == Chalk("<b>", "</b>", s)
ThemeEmphasis(s) == Chalk("<i>", "</i>", s)
ThemeCode(s) == Chalk("<yellow>", "</fg>", s)
ThemeHeading1(s) == Chalk("<cyan>", "</fg>", Chalk("<b>", "</b>", s))
ThemeHeading2(s) == Chalk("<blue>", "</fg>", Chalk("<b>", "</b>", s))
ThemeHeading3(s) == Chalk("<green>", "</fg>", Chalk("<b>", "</b>", s))
ThemeHeading4(s) == Chalk("<yellow>", "</fg>", Chalk("<b>", "</b>", s))
ThemeLink(s) == Chalk("<blue>", "</fg>", Chalk("<u>", "</u>", s))
ThemeLinkUrl(s) == Chalk("<blue>", "</fg>", s)
ThemeBlockquote(s) == Chalk("<gray>", "</fg>", Chalk("<i>", "</i>", s))
ThemeListBullet(s) == Chalk("<cyan>", "</fg>", s)

\* the render context of part_010:174-193 for a width; env holds what the
\* walker reads from outside: highlighter (shikiHighlighter && shikiAnsi),
\* chalk (cachedChalk), columns (process.stdout.columns, <<>> when undefined),
\* throws (the call of codeToAnsi ends in an exception once it has the
\* tokens of a loaded language: a token list of another shape than line 104
\* expects, a colour chalk.hex refuses)
Context(width, env) == [width |-> width, indentLevel |-> 0, env |-> env]
Indented(ctx, by) == [ctx EXCEPT !.indentLevel = @ + by]

(***************************************************************************)
(* The highlighter (shiki) behind codeToAnsi (part_010:79-121): a language *)
(* outside the loaded list makes codeToTokens throw, and the code comes    *)
(* back unchanged; otherwise every line comes back as its coloured tokens. *)
(***************************************************************************)
LoadedLangs == { <<"j", "s", "o", "n">>, <<"p", "h", "p">>, <<"g", "o">>, TextLang }

\* codeToAnsi without the catch of lines 99-102, the tokens of a language
\* that is not loaded being taken for plain ones: every line is coloured
codeToAnsiColoured(code, lang) ==
    [i \in 1..Len(code) |->
        IF code[i] = <<>> THEN <<>> ELSE <<"<hex>">> \o code[i] \o <<"</fg>">>]

codeToAnsi(code, lang) ==
    IF lang \notin LoadedLangs THEN code
    ELSE [i \in 1..Len(code) |->
             IF code[i] = <<>> THEN <<>> ELSE <<"<hex>">> \o code[i] \o <<"</fg>">>]

\* awaitMaybeSyncAnsi (part_010:387-399): an exception of codeToAnsi is
\* caught (line 397) and the code comes back as it is
awaitMaybeSyncAnsi(code, language, env) ==
    IF env.throws /\ language \in LoadedLangs THEN code ELSE codeToAnsi(code, language)

(***************************************************************************)
(* boxCode (part_010:321-380).                                             *)
(***************************************************************************)
BoxLine(line, innerWidth) ==
    LET displayWidth == StringWidth(line)
        truncated == IF displayWidth > innerWidth THEN sliceAnsi(line, innerWidth) ELSE line
        padding == Max(0, innerWidth - StringWidth(truncated))
    IN  <<"VBAR", " ">> \o truncated \o Repeat(" ", padding) \o <<" ", "VBAR">>

boxCode(contentAnsi, widthLocal, lang, ctx) ==
    LET currentWidth == IF ctx.width # 0 THEN ctx.width
                        ELSE IF ctx.env.columns # <<>> /\ ctx.env.columns # <<0>>
                             THEN ctx.env.columns[1] ELSE 80
        minBoxWidth == 40
        boxWidth == Max(minBoxWidth, Min(currentWidth, widthLocal))
        innerWidth == Max(1, boxWidth - 4)
        labelRaw == IF lang # <<>> /\ lang # TextLang
                    THEN Str(<<" ">> \o lang \o <<" ">>) ELSE EmptyStr
        labelStyled == ThemeCode(labelRaw)[1]
        borderWidth == boxWidth - 2
        topBorder ==
            IF labelStyled # <<>>
            THEN <<"TL">> \o labelStyled
                   \o Repeat("HBAR", Max(0, borderWidth - StringWidth(labelStyled)))
                   \o <<"TR">>
            ELSE <<"TL">> \o Repeat("HBAR", borderWidth) \o <<"TR">>
        bottomBorder == <<"BL">> \o Repeat("HBAR", borderWidth) \o <<"BR">>
        contentLines ==
            Flatten([i \in 1..Len(contentAnsi) |->
                LET wrapped == wrapAnsi(Str(contentAnsi[i]), innerWidth, TRUE)
                IN  [j \in 1..Len(wrapped) |-> BoxLine(wrapped[j], innerWidth)]])
    IN  <<topBorder>> \o contentLines \o <<bottomBorder>>

(***************************************************************************)
(* The walker: renderInline, renderInlines, wrapParagraph, renderBlock,    *)
(* renderRoot (part_010:195-319, 382-384).                                 *)
(***************************************************************************)
RECURSIVE renderInline(_, _)
RECURSIVE renderInlines(_, _)
RECURSIVE ConcatAll(_)
ConcatAll(strs) == IF strs = <<>> THEN EmptyStr ELSE Concat(Head(strs), ConcatAll(Tail(strs)))

renderInlines(children, ctx) ==
    ConcatAll([i \in 1..Len(children) |-> renderInline(children[i], ctx)])

\* the default case of renderInline (part_010:212-213)
renderUnknownInline(node, ctx) ==
    IF node.hasChildren THEN renderInlines(node.children, ctx) ELSE EmptyStr

renderInline(node, ctx) ==
    CASE node.type = "text" -> node.value
      [] node.type = "strong" -> ThemeStrong(renderInlines(node.children, ctx))
      [] node.type = "emphasis" -> ThemeEmphasis(renderInlines(node.children, ctx))
      [] node.type = "inlineCode" -> ThemeCode(node.value)
      [] node.type = "delete" -> renderInlines(node.children, ctx)
      [] node.type = "link" ->
            Concat(ThemeLink(renderInlines(node.children, ctx)),
                   Concat(Str(<<" ">>),
                          ThemeLinkUrl(Concat(Str(<<"(">>), Concat(node.value, Str(<<")">>))))))
      [] OTHER -> renderUnknownInline(node, ctx)

wrapParagraph(text, ctx) ==
    LET availableWidth == Max(20, ctx.width - ctx.indentLevel)
        wrapped == wrapAnsi(text, availableWidth, FALSE)
        indent == Repeat(" ", ctx.indentLevel)
    IN  IF ctx.indentLevel > 0
        THEN [i \in 1..Len(wrapped) |-> indent \o wrapped[i]]
        ELSE wrapped

RECURSIVE renderBlock(_, _)
renderListItem(item, idx, node, ctx) ==
    LET isOrdered == node.ordered
        start == IF node.start # <<>> THEN node.start[1] ELSE 1
        indent == Repeat(" ", ctx.indentLevel)
        marker == IF isOrdered THEN Str(NumToString(start + idx) \o <<".">>)
                  ELSE Str(<<"BULLET">>)
        markerStyled == (IF isOrdered THEN marker ELSE ThemeListBullet(marker))[1]
        itemText ==
            JoinNL([i \in 1..Len(item.children) |->
                IF item.children[i].type = "paragraph"
                THEN renderInlines(item.children[i].children, ctx)
                ELSE renderBlock(item.children[i], Indented(ctx, 2))])
        markerWidth == StringWidth(markerStyled) + 1
        availableWidth == Max(20, ctx.width - ctx.indentLevel - markerWidth)
        lines == wrapAnsi(itemText, availableWidth, FALSE)
        firstLine == indent \o markerStyled \o <<" ">> \o lines[1]
        hangingIndent == Repeat(" ", ctx.indentLevel + markerWidth)
        remainingLines == [i \in 1..(Len(lines) - 1) |-> hangingIndent \o lines[i + 1]]
    IN  <<firstLine>> \o remainingLines

\* the code case with the fallback of lines 305-308 returning the styled
\* code as it is, without the box
renderCodeUnboxed(node, ctx) ==
    LET lang == IF node.lang # <<>> THEN node.lang ELSE TextLang
    IN  IF ctx.env.highlighter
        THEN boxCode(awaitMaybeSyncAnsi(node.value, lang, ctx.env), ctx.width, lang, ctx)
        ELSE IF ctx.env.chalk THEN ThemeCode(node.value) ELSE node.value

\* the code case of renderBlock (part_010:295-309)
renderCode(node, ctx) ==
    LET lang == IF node.lang # <<>> THEN node.lang ELSE TextLang
    IN  IF ctx.env.highlighter
        THEN boxCode(awaitMaybeSyncAnsi(node.value, lang, ctx.env), ctx.width, lang, ctx)
        ELSE boxCode(IF ctx.env.chalk THEN ThemeCode(node.value) ELSE node.value,
                     ctx.width, lang, ctx)

\* the default case of renderBlock with the children left out
renderUnknownBlockEmpty(node, ctx) == EmptyStr

\* the default case of renderBlock (part_010:312-317)
renderUnknownBlock(node, ctx) ==
    IF node.hasChildren
    THEN JoinNL([i \in 1..Len(node.children) |-> renderBlock(node.children[i], ctx)])
    ELSE EmptyStr

renderBlock(node, ctx) ==
    CASE node.type = "heading" ->
            LET content == renderInlines(node.children, ctx)
            IN  IF node.depth = 1 THEN ThemeHeading1(content)
                ELSE IF node.depth = 2 THEN ThemeHeading2(content)
                ELSE IF node.depth = 3 THEN ThemeHeading3(content)
                ELSE ThemeHeading4(Concat(Str(Repeat("#", Max(1, Min(6, node.depth)))
                                               \o <<" ">>), content))
      [] node.type = "paragraph" -> wrapParagraph(renderInlines(node.children, ctx), ctx)
      [] node.type = "blockquote" ->
            LET inner == JoinNL([i \in 1..Len(node.children) |->
                                    renderBlock(node.children[i], Indented(ctx, 2))])
                prefixed == [i \in 1..Len(inner) |-> <<">", " ">> \o inner[i]]
            IN  ThemeBlockquote(prefixed)
      [] node.type = "list" ->
            JoinNL([i \in 1..Len(node.children) |->
                       renderListItem(node.children[i], i - 1, node, ctx)])
      [] node.type = "code" -> renderCode(node, ctx)
      [] node.type = "thematicBreak" ->
            Str(Repeat("HBAR", Max(0, ctx.width - ctx.indentLevel)))
      [] OTHER -> renderUnknownBlock(node, ctx)

renderRoot(root, ctx) ==
    JoinBlank(SelectSeq([i \in 1..Len(root.children) |-> renderBlock(root.children[i], ctx)],
                        LAMBDA s : s # EmptyStr))

(***************************************************************************)
(* The Markdown inputs of the model and what the parser (remark, behind    *)
(* parserProcessor.parse, part_010:166) makes of them: text without any    *)
(* Markdown syntax is one paragraph holding one text node, and text that   *)
(* is only white space is a root without children.                         *)
(***************************************************************************)
DocEmpty == <<>>
DocBlank == <<" ">>
DocAB == <<"a", "b">>
DocBA == <<"b", "A">>
DocLong == Repeat("x", 11) \o <<" ">> \o Repeat("y", 11)

\* the documents a warm process has rendered before: two letters of c .. l each
FillLetters == <<"c", "d", "e", "f", "g", "h", "i", "j", "k", "l">>
FillDoc(i) == << FillLetters[((i - 1) \div 10) + 1], FillLetters[((i - 1) % 10) + 1] >>

Parse(markdown) ==
    IF \A i \in 1..Len(markdown) : markdown[i] = " " THEN Root(<<>>)
    ELSE Root(<<Paragraph(markdown)>>)

\* process.stdout.columns: undefined when the output is no terminal
TerminalColumns == { <<>>, <<100>> }

\* renderWithMarked (part_010:406-444): the output of marked-terminal for a
\* document and a width, which the model does not look into
renderWithMarked(markdown, width) ==
    Str(<<"MARKED", ":">> \o NumToString(width) \o <<":">> \o markdown)

(***************************************************************************)
(* The render calls.  pc is the await a call is suspended at:              *)
(*   idle     not called yet                                               *)
(*   imports  ensureInitialized, the imports of lines 52-54                *)
(*   shiki    ensureInitialized, the import of line 61                     *)
(*   hlwait   ensureInitialized, awaiting createHighlighter (line 64)      *)
(*   chalk    ensureInitialized, awaiting ensureChalk (line 77)            *)
(*   ready    renderWithRemarkShiki, the awaits of lines 151-160           *)
(*   legacy   renderWithMarked                                             *)
(*   done     settled                                                      *)
(***************************************************************************)
Calls == 1..MaxCalls
InitPcs == {"imports", "shiki", "hlwait", "chalk"}

\* history: a cache section ("render", by a call) or a maintenance call
\* ("invalidate" of a width, "clear")
Event(op, call, width) == [op |-> op, call |-> call, width |-> width]
NoEvent == Event("none", 0, 0)

IdleCall ==
    [pc |-> "idle", md |-> <<>>, width |-> 0, outcome |-> "none", result |-> EmptyStr,
     via |-> "none", initFailed |-> FALSE, initStarted |-> FALSE,
     served |-> FALSE, walked |-> FALSE, parsed |-> FALSE]

\* the state of a process that has loaded the module and rendered nothing
ColdState ==
    /\ initialized = FALSE
    /\ parserProcessor = Null
    /\ shikiHighlighter = Null
    /\ shikiAnsi = Null
    /\ cachedChalk = FALSE
    /\ cachedWidth = <<>>
    /\ astCache = <<>>
    /\ renderCache = <<>>
    /\ calls = [c \in Calls |-> IdleCall]
    /\ last = NoEvent
    /\ clock = 0
    /\ astUse = <<>>
    /\ renderUse = <<>>
    /\ parserBuilds = 0
    /\ highlighterStarts = 0

NoLayout == [tree |-> Root(<<>>), width |-> 0,
             env |-> [highlighter |-> FALSE, chalk |-> FALSE, columns |-> <<>>,
                      throws |-> FALSE]]

\* no run of the agent
AgentOff ==
    /\ variant = [heuristic |-> FALSE, goalHasMath |-> FALSE, memory |-> <<>>]
    /\ maxSteps = 0
    /\ runPc = "off"
    /\ step = 0
    /\ messages = <<>>
    /\ toolCalls = <<>>
    /\ pending = <<>>
    /\ runResult = "none"
    /\ llmCalls = 0
    /\ toolRuns = 0
    /\ toolResponses = 0
    /\ stepBase = 0

\* the TUI is not mounted
AppOff ==
    /\ stdoutColumns = 0
    /\ termWidth = 0
    /\ history = <<>>
    /\ busy = FALSE
    /\ submitPc = "off"
    /\ submitCall = 0
    /\ jobs = <<>>
    /\ submits = 0

\* no token at hand
TokenOff == tokIn = <<>> /\ tokOut = <<>>

\* no provider call
CliOff == cli = [pc |-> "off"]

SideOff == AppOff /\ TokenOff /\ CliOff

Init ==
    /\ ColdState
    /\ layIn = NoLayout
    /\ layOut = <<>>
    /\ hlOut = <<>>
    /\ AgentOff
    /\ SideOff

layVars == <<layIn, layOut, hlOut>>
agentVars == <<variant, maxSteps, runPc, step, messages, toolCalls, pending, runResult,
               llmCalls, toolRuns, toolResponses, stepBase>>
moduleVars == <<initialized, parserProcessor, shikiHighlighter, shikiAnsi, cachedChalk>>
cacheVars == <<astCache, renderCache, clock, astUse, renderUse>>
initHistory == <<parserBuilds, highlighterStarts>>
appVars == <<stdoutColumns, termWidth, history, busy, submitPc, submitCall, jobs, submits>>
sideVars == <<appVars, tokIn, tokOut, cli>>

\* targetWidth (part_010:448): the width if the call has one, else what
\* process.stdout.columns ?? 80 may be
TargetWidths(width) ==
    IF width # <<>> THEN {width[1]}
    ELSE {IF columns # <<>> THEN columns[1] ELSE DefaultWidth : columns \in TerminalColumns}

\* what process.stdout.columns may be where the walker reads it: boxCode
\* reads it only when ctx.width is 0 (part_010:323)
ColumnsRead(width) == IF width # 0 THEN { <<>> } ELSE TerminalColumns

\* renderMarkdownToAnsi up to its first await (part_010:446-452, 150-151,
\* 48-52): '' for an empty document, else into ensureInitialized
RenderCall(c, markdown, width) ==
    /\ calls[c].pc = "idle"
    /\ IF c = 1 THEN TRUE ELSE calls[c - 1].pc # "idle"
    /\ \E targetWidth \in TargetWidths(width) :
         LET entered == [calls[c] EXCEPT !.md = markdown, !.width = targetWidth]
         IN  calls' = [calls EXCEPT ![c] =
                 IF markdown = <<>>
                 THEN [entered EXCEPT !.pc = "done", !.outcome = "returned"]
                 ELSE IF initialized THEN [entered EXCEPT !.pc = "ready"]
                 ELSE [entered EXCEPT !.pc = "imports", !.initStarted = TRUE]]
    /\ UNCHANGED <<moduleVars, cachedWidth, cacheVars, last, initHistory, layVars, agentVars, sideVars>>

\* ensureInitialized, lines 52-58: the parser is constructed
LoadParser(c) ==
    /\ calls[c].pc = "imports"
    /\ parserProcessor' = <<c>>
    /\ parserBuilds' = parserBuilds + 1
    /\ calls' = [calls EXCEPT ![c].pc = "shiki"]
    /\ UNCHANGED <<initialized, shikiHighlighter, shikiAnsi, cachedChalk, cachedWidth,
                   cacheVars, last, highlighterStarts, layVars, agentVars, sideVars>>

\* ensureInitialized, lines 61-64: createHighlighter is called
CreateHighlighter(c) ==
    /\ calls[c].pc = "shiki"
    /\ highlighterStarts' = highlighterStarts + 1
    /\ calls' = [calls EXCEPT ![c].pc = "hlwait"]
    /\ UNCHANGED <<moduleVars, cachedWidth, cacheVars, last, parserBuilds, layVars, agentVars, sideVars>>

\* ensureInitialized, line 64 resumed, up to the await of line 77
HighlighterCreated(c) ==
    /\ calls[c].pc = "hlwait"
    /\ shikiHighlighter' = <<c>>
    /\ calls' = [calls EXCEPT ![c].pc = "chalk"]
    /\ UNCHANGED <<initialized, parserProcessor, shikiAnsi, cachedChalk, cachedWidth,
                   cacheVars, last, initHistory, layVars, agentVars, sideVars>>

\* ensureInitialized, lines 77-124, and its return to line 151
FinishInit(c) ==
    /\ calls[c].pc = "chalk"
    /\ cachedChalk' = TRUE
    /\ shikiAnsi' = <<c>>
    /\ initialized' = TRUE
    /\ calls' = [calls EXCEPT ![c].pc = "ready"]
    /\ UNCHANGED <<parserProcessor, shikiHighlighter, cachedWidth, cacheVars, last,
                   initHistory, layVars, agentVars, sideVars>>

\* ensureInitialized, lines 125-129: an import or createHighlighter threw; the
\* error reaches the catch of renderMarkdownToAnsi (line 455)
InitFailure(c) ==
    /\ calls[c].pc \in InitPcs
    /\ initialized' = FALSE
    /\ calls' = [calls EXCEPT ![c].pc = "legacy", ![c].initFailed = TRUE]
    /\ UNCHANGED <<parserProcessor, shikiHighlighter, shikiAnsi, cachedChalk, cachedWidth,
                   cacheVars, last, initHistory, layVars, agentVars, sideVars>>

\* history: the use times of the keys of a map after an access to key at time t
Touched(use, map, key, t) ==
    [k \in MapKeySet(map) |-> IF k = key THEN t ELSE use[k]]
Kept(use, map) == [k \in MapKeySet(map) |-> use[k]]

\* what the walker reads from outside the tree and the context (throws is
\* read for a code node only, and the documents of the render calls hold none)
WalkerEnv(columns) ==
    [highlighter |-> shikiHighlighter # Null /\ shikiAnsi # Null,
     chalk |-> cachedChalk, columns |-> columns, throws |-> FALSE]

\* renderWithRemarkShiki, lines 163-172: the two cache lookups of a call
CacheSection(astMap, renderMap, markdown, width) ==
    LET astKey == hashKey(markdown)
        astGot == lruGet(astMap, astKey)
        ast == IF astGot.found THEN astGot.val ELSE Parse(markdown)
        key == cacheKey(astKey, width)
        got == lruGet(renderMap, key)
    IN  [astKey |-> astKey, ast |-> ast, key |-> key, astFound |-> astGot.found,
         astMap |-> IF astGot.found THEN astGot.map
                    ELSE lruSet(astGot.map, astKey, ast, MAX_AST_CACHE),
         cached |-> got.found /\ got.val # EmptyStr,
         found |-> got.found,
         value |-> got.val,
         renderMap |-> got.map]

\* renderWithRemarkShiki with an await between the lookups of lines 163-172
\* and the walk: the call is suspended with the caches read
RenderPrimarySuspended(c) ==
    /\ calls[c].pc = "ready"
    /\ parserProcessor # Null
    /\ LET sec == CacheSection(astCache, renderCache, calls[c].md, calls[c].width)
       IN  /\ astCache' = sec.astMap
           /\ astUse' = Touched(astUse, sec.astMap, sec.astKey, clock + 1)
           /\ clock' = clock + 2
           /\ last' = Event("render", c, calls[c].width)
           /\ cachedChalk' = TRUE
           /\ renderCache' = sec.renderMap
           /\ renderUse' = IF sec.found
                           THEN Touched(renderUse, sec.renderMap, sec.key, clock + 2)
                           ELSE renderUse
           /\ calls' = [calls EXCEPT ![c].pc = "walking", ![c].parsed = ~sec.astFound]
    /\ UNCHANGED <<initialized, parserProcessor, shikiHighlighter, shikiAnsi, cachedWidth,
                   initHistory, layVars, agentVars, sideVars>>

\* renderWithRemarkShiki from line 152 to its end, and the return of
\* renderMarkdownToAnsi (lines 452-454).  Lines 163-403 run without an await.
RenderPrimary(c) ==
    /\ calls[c].pc = "ready"
    /\ parserProcessor # Null
    /\ LET sec == CacheSection(astCache, renderCache, calls[c].md, calls[c].width)
       IN  /\ astCache' = sec.astMap
           /\ astUse' = Touched(astUse, sec.astMap, sec.astKey, clock + 1)
           /\ clock' = clock + 2
           /\ last' = Event("render", c, calls[c].width)
           /\ cachedChalk' = TRUE
           /\ cachedWidth' = <<calls[c].width>>
           /\ IF sec.cached
              THEN /\ renderCache' = sec.renderMap
                   /\ renderUse' = Touched(renderUse, sec.renderMap, sec.key, clock + 2)
                   /\ calls' = [calls EXCEPT ![c].pc = "done", ![c].outcome = "returned",
                                             ![c].via = "primary", ![c].served = TRUE,
                                             ![c].parsed = ~sec.astFound,
                                             ![c].result = sec.value]
              ELSE \E columns \in ColumnsRead(calls[c].width) :
                     LET rendered == renderRoot(sec.ast, Context(calls[c].width,
                                                                 WalkerEnv(columns)))
                         map == lruSet(sec.renderMap, sec.key, rendered, MAX_RENDER_CACHE)
                     IN  /\ renderCache' = map
                         /\ renderUse' = Touched(renderUse, map, sec.key, clock + 2)
                         /\ calls' = [calls EXCEPT ![c].pc = "done",
                                                   ![c].outcome = "returned",
                                                   ![c].via = "primary",
                                                   ![c].walked = TRUE,
                                                   ![c].parsed = ~sec.astFound,
                                                   ![c].result = rendered]
    /\ UNCHANGED <<initialized, parserProcessor, shikiHighlighter, shikiAnsi,
                   initHistory, layVars, agentVars, sideVars>>

\* renderWithRemarkShiki throws: an import of lines 153-160 or the parser
\* (line 166) before any cache is touched, or the walk (line 401) after the
\* tree was cached and the render cache was read; renderMarkdownToAnsi
\* catches it (line 455)
PrimaryFailure(c) ==
    /\ calls[c].pc = "ready"
    /\ \/ /\ UNCHANGED <<cacheVars, last>>
          /\ calls' = [calls EXCEPT ![c].pc = "legacy"]
       \/ /\ parserProcessor # Null
          /\ LET sec == CacheSection(astCache, renderCache, calls[c].md, calls[c].width)
             IN  /\ ~sec.cached
                 /\ calls' = [calls EXCEPT ![c].pc = "legacy",
                                           ![c].parsed = ~sec.astFound]
                 /\ astCache' = sec.astMap
                 /\ astUse' = Touched(astUse, sec.astMap, sec.astKey, clock + 1)
                 /\ renderCache' = sec.renderMap
                 /\ renderUse' = IF sec.found
                                 THEN Touched(renderUse, sec.renderMap, sec.key, clock + 2)
                                 ELSE renderUse
                 /\ clock' = clock + 2
                 /\ last' = Event("render", c, calls[c].width)
    /\ cachedChalk' = TRUE
    /\ UNCHANGED <<initialized, parserProcessor, shikiHighlighter, shikiAnsi, cachedWidth,
                   initHistory, layVars, agentVars, sideVars>>

\* renderWithMarked with its output put into the render cache
LegacyReturnsStoring(c) ==
    /\ calls[c].pc = "legacy"
    /\ cachedChalk' = TRUE
    /\ cachedWidth' = <<calls[c].width>>
    /\ calls' = [calls EXCEPT ![c].pc = "done", ![c].outcome = "returned",
                              ![c].via = "legacy",
                              ![c].result = renderWithMarked(calls[c].md, calls[c].width)]
    /\ LET key == cacheKey(hashKey(calls[c].md), calls[c].width)
           map == lruSet(renderCache, key, renderWithMarked(calls[c].md, calls[c].width),
                         MAX_RENDER_CACHE)
       IN  /\ renderCache' = map
           /\ renderUse' = Touched(renderUse, map, key, clock)
    /\ UNCHANGED <<initialized, parserProcessor, shikiHighlighter, shikiAnsi, astCache,
                   astUse, clock, last, initHistory, layVars, agentVars, sideVars>>

\* renderWithMarked and the return of line 459
LegacyReturns(c) ==
    /\ calls[c].pc = "legacy"
    /\ cachedChalk' = TRUE
    /\ cachedWidth' = <<calls[c].width>>
    /\ calls' = [calls EXCEPT ![c].pc = "done", ![c].outcome = "returned",
                              ![c].via = "legacy",
                              ![c].result = renderWithMarked(calls[c].md, calls[c].width)]
    /\ UNCHANGED <<initialized, parserProcessor, shikiHighlighter, shikiAnsi, cacheVars,
                   last, initHistory, layVars, agentVars, sideVars>>

\* renderWithMarked throws (an import of lines 408-410, marked.use or marked
\* itself): line 457 sits in the catch block, nothing catches the error
LegacyThrows(c) ==
    /\ calls[c].pc = "legacy"
    /\ calls' = [calls EXCEPT ![c].pc = "done", ![c].outcome = "rejected",
                              ![c].via = "legacy"]
    /\ UNCHANGED <<moduleVars, cachedWidth, cacheVars, last, initHistory, layVars, agentVars, sideVars>>

\* invalidateCacheForWidth without the test of line 475: every key goes
invalidateEveryWidth(width) ==
    /\ renderCache' = <<>>
    /\ renderUse' = <<>>
    /\ last' = Event("invalidate", 0, width)
    /\ UNCHANGED <<moduleVars, cachedWidth, astCache, astUse, clock, calls,
                   initHistory, layVars, agentVars, sideVars>>

\* invalidateCacheForWidth (part_010:472-479)
invalidateCacheForWidth(width) ==
    /\ LET bucket == getWidthBucket(width)
           pat == <<":">> \o NumToString(bucket) \o <<":">>
           map == SelectSeq(renderCache, LAMBDA e : ~Includes(e.k, pat))
       IN  /\ renderCache' = map
           /\ renderUse' = Kept(renderUse, map)
    /\ last' = Event("invalidate", 0, width)
    /\ UNCHANGED <<moduleVars, cachedWidth, astCache, astUse, clock, calls,
                   initHistory, layVars, agentVars, sideVars>>

\* clearRenderCache (part_010:468-470)
clearRenderCache ==
    /\ renderCache' = <<>>
    /\ renderUse' = <<>>
    /\ last' = Event("clear", 0, 0)
    /\ UNCHANGED <<moduleVars, cachedWidth, astCache, astUse, clock, calls,
                   initHistory, layVars, agentVars, sideVars>>

(***************************************************************************)
(* Spec: a process from its start, with overlapping render calls.          *)
(***************************************************************************)
ColdDocs == {DocEmpty, DocAB}
ColdWidths == { <<80>> }

Next ==
    \/ \E c \in Calls, m \in ColdDocs, w \in ColdWidths : RenderCall(c, m, w)
    \/ \E c \in Calls : LoadParser(c)
    \/ \E c \in Calls : CreateHighlighter(c)
    \/ \E c \in Calls : HighlighterCreated(c)
    \/ \E c \in Calls : FinishInit(c)
    \/ \E c \in Calls : InitFailure(c)
    \/ \E c \in Calls : RenderPrimary(c)
    \/ \E c \in Calls : PrimaryFailure(c)
    \/ \E c \in Calls : LegacyReturns(c)
    \/ \E c \in Calls : LegacyThrows(c)

Spec == Init /\ [][Next]_vars

(***************************************************************************)
(* A warm process: initialization succeeded earlier and the documents      *)
(* FillDoc(1) .. FillDoc(n) were rendered at the default width, one call   *)
(* after the other.  The caches and the use times are those calls' cache   *)
(* sections, computed as RenderPrimary computes them.                      *)
(***************************************************************************)
WarmEnv == [highlighter |-> TRUE, chalk |-> TRUE, columns |-> <<>>, throws |-> FALSE]

\* the caches after one more call has run its cache section sec at time t and
\* left the render cache as map
AfterSection(st, sec, map, t) ==
    [ast |-> sec.astMap, render |-> map,
     astUse |-> Touched(st.astUse, sec.astMap, sec.astKey, t + 1),
     renderUse |-> Touched(st.renderUse, map, sec.key, t + 2)]

\* lines 172 and 401-402 of such a call
AfterLookup(sec, width) ==
    IF sec.cached THEN sec.renderMap
    ELSE lruSet(sec.renderMap, sec.key,
                renderRoot(sec.ast, Context(width, WarmEnv)), MAX_RENDER_CACHE)

WithSection(st, sec, width, t) == AfterSection(st, sec, AfterLookup(sec, width), t)

AfterRender(st, markdown, width, t) ==
    WithSection(st, CacheSection(st.ast, st.render, markdown, width), width, t)

\* the caches after the calls for FillDoc(lo) .. FillDoc(hi), one after the
\* other (the range is halved, and the first half looked at before the second
\* is entered, only to keep the evaluation shallow)
RECURSIVE AfterFills(_, _, _)
SecondHalf(first, lo, hi) ==
    IF Len(first.ast) > MAX_AST_CACHE THEN first ELSE AfterFills(first, lo, hi)

AfterFills(st, lo, hi) ==
    IF lo > hi THEN st
    ELSE IF lo = hi THEN AfterRender(st, FillDoc(lo), DefaultWidth, 2 * (lo - 1))
    ELSE SecondHalf(AfterFills(st, lo, (lo + hi) \div 2), ((lo + hi) \div 2) + 1, hi)

Warmed(n) ==
    AfterFills([ast |-> <<>>, render |-> <<>>, astUse |-> <<>>, renderUse |-> <<>>], 1, n)

WarmFrom(st, n) ==
    /\ initialized = TRUE
    /\ parserProcessor = <<0>>
    /\ shikiHighlighter = <<0>>
    /\ shikiAnsi = <<0>>
    /\ cachedChalk = TRUE
    /\ cachedWidth = IF n = 0 THEN <<>> ELSE <<DefaultWidth>>
    /\ astCache = st.ast
    /\ renderCache = st.render
    /\ calls = [c \in Calls |-> IdleCall]
    /\ last = NoEvent
    /\ clock = 2 * n
    /\ astUse = st.astUse
    /\ renderUse = st.renderUse
    /\ parserBuilds = 1
    /\ highlighterStarts = 1
    /\ layIn = NoLayout
    /\ layOut = <<>>
    /\ hlOut = <<>>
    /\ AgentOff
    /\ SideOff

WarmState(n) == WarmFrom(Warmed(n), n)

(***************************************************************************)
(* CacheSpec: render calls and cache maintenance on a warm process whose   *)
(* caches are empty.  FullSpec: render calls that the primary pipeline     *)
(* answers, and cache maintenance, on a process whose render cache is full *)
(* and whose tree cache is full or one entry short of it.                  *)
(***************************************************************************)
CacheDocs == {DocAB, DocBA, DocLong, DocBlank}
CacheWidths == { <<21>>, <<24>>, <<80>> }

InitCache == WarmState(0)

NextCache ==
    \/ \E c \in Calls, m \in CacheDocs, w \in CacheWidths : RenderCall(c, m, w)
    \/ \E c \in Calls : RenderPrimary(c)
    \/ \E c \in Calls : PrimaryFailure(c)
    \/ \E c \in Calls : LegacyReturns(c)
    \/ \E c \in Calls : LegacyThrows(c)
    \/ \E w \in CacheWidths : invalidateCacheForWidth(w[1])
    \/ clearRenderCache

CacheSpec == InitCache /\ [][NextCache]_vars

\* FallbackSpec: as CacheSpec, for a document and a blank one at two widths
FallbackDocs == {DocAB, DocBlank}
FallbackWidths == { <<21>>, <<80>> }

InitFallback == WarmState(0)

NextFallback ==
    \/ \E c \in Calls, m \in FallbackDocs, w \in FallbackWidths : RenderCall(c, m, w)
    \/ \E c \in Calls : RenderPrimary(c)
    \/ \E c \in Calls : PrimaryFailure(c)
    \/ \E c \in Calls : LegacyReturns(c)
    \/ \E c \in Calls : LegacyThrows(c)
    \/ \E w \in FallbackWidths : invalidateCacheForWidth(w[1])
    \/ clearRenderCache

FallbackSpec == InitFallback /\ [][NextFallback]_vars

FillCounts == {MAX_AST_CACHE - 1, MAX_AST_CACHE}
FullDocs == {DocAB, FillDoc(1), FillDoc(51)}
FullWidths == { <<24>>, <<80>> }

InitFull == \E n \in FillCounts : WarmState(n)

NextFull ==
    \/ \E c \in Calls, m \in FullDocs, w \in FullWidths : RenderCall(c, m, w)
    \/ \E c \in Calls : RenderPrimary(c)
    \/ \E w \in FullWidths : invalidateCacheForWidth(w[1])
    \/ clearRenderCache

FullSpec == InitFull /\ [][NextFull]_vars

(***************************************************************************)
(* EntrySpec: render calls of a warm process with empty caches, with and   *)
(* without a width, also with a width that is zero or negative; the        *)
(* primary pipeline answers every call.                                    *)
(***************************************************************************)
EntryDocs == {DocAB, DocLong}
EntryWidths == { <<>>, <<0>>, <<-5>>, <<21>>, <<24>>, <<80>> }

InitEntry == WarmState(0)

NextEntry ==
    \/ \E c \in Calls, m \in EntryDocs, w \in EntryWidths : RenderCall(c, m, w)
    \/ \E c \in Calls : RenderPrimary(c)

EntrySpec == InitEntry /\ [][NextEntry]_vars

(***************************************************************************)
(* LayoutSpec: the walker alone (the call of renderRoot at part_010:401),  *)
(* on the trees remark builds for a paragraph or a fenced code block that  *)
(* stands at the top of a document, or inside block quotes and bullet      *)
(* lists nested up to MaxDepth deep.                                       *)
(***************************************************************************)
MaxDepth == 2          \* nesting of block quotes and lists around a block

\* twelve words of six letters
LayoutText ==
    Flatten([i \in 1..12 |-> (IF i = 1 THEN <<>> ELSE <<" ">>) \o Repeat("w", 6)])

LeafBlocks == { Paragraph(LayoutText),
                Code(<<"g", "o">>, Str(<<"x", " ", ":", "=", " ", "1">>)) }

RECURSIVE Blocks(_)
Blocks(d) ==
    IF d = 0 THEN LeafBlocks
    ELSE LET inner == Blocks(d - 1)
         IN  inner \cup {Blockquote(<<b>>) : b \in inner}
                   \cup {BulletList(<<ListItem(<<b>>)>>) : b \in inner}

LayoutTrees == {Root(<<b>>) : b \in Blocks(MaxDepth)}
LayoutWidths == {10, 30, 50}
LayoutEnvs == { WarmEnv, [highlighter |-> FALSE, chalk |-> TRUE, columns |-> <<100>>,
                           throws |-> FALSE] }

InitLayout ==
    /\ ColdState
    /\ layIn \in [tree : LayoutTrees, width : LayoutWidths, env : LayoutEnvs]
    /\ layOut = <<>>
    /\ hlOut = <<>>
    /\ AgentOff
    /\ SideOff

\* const rendered = renderRoot(ast, context)  (part_010:401)
RenderLayout ==
    /\ layOut = <<>>
    /\ layOut' = renderRoot(layIn.tree, Context(layIn.width, layIn.env))
    /\ UNCHANGED <<moduleVars, cachedWidth, cacheVars, calls, last, initHistory, layIn,
                   hlOut, agentVars, sideVars>>

NextLayout == RenderLayout

LayoutSpec == InitLayout /\ [][NextLayout]_vars

(***************************************************************************)
(* BlockSpec: the walker and the highlighter on the trees remark (with     *)
(* remark-gfm) builds for fenced code blocks, headings, lists, and nodes   *)
(* the walker has no case for (html, table, footnoteDefinition at block    *)
(* level; linkReference, break inside a paragraph), each at the top of a   *)
(* document or inside block quotes and footnote definitions nested up to   *)
(* MaxDepth deep.                                                          *)
(***************************************************************************)
\* n words of k letters ch, one blank between them
Words(n, k, ch) ==
    Flatten([i \in 1..n |-> (IF i = 1 THEN <<>> ELSE <<" ">>) \o Repeat(ch, k)])

CodeLangs == { <<"g", "o">>, <<"z", "z">>, <<>> }
CodeBlocks == {Code(l, <<<<"x", " ", ":", "=", " ", "1">>, <<"y">>>>) : l \in CodeLangs}

HeadingText == <<"T", "i">>
HeadingBlocks == {Heading(d, HeadingText) : d \in 1..6}

\* nodes without a case in renderBlock
HtmlBlock == Leaf("html", Str(<<"<", "h", "r", ">">>))
FootnoteDefinition(children) == Node("footnoteDefinition", EmptyStr, children)
FootnoteTwo == FootnoteDefinition(<<Paragraph(<<"a", "a">>), Paragraph(<<"b", "b">>)>>)
TableBlock ==
    Node("table", EmptyStr,
         <<Node("tableRow", EmptyStr, <<Node("tableCell", EmptyStr, <<Text(<<"h">>)>>)>>),
           Node("tableRow", EmptyStr, <<Node("tableCell", EmptyStr, <<Text(<<"c">>)>>)>>)>>)

\* a paragraph with nodes without a case in renderInline
InlineParagraph ==
    Node("paragraph", EmptyStr,
         <<Text(<<"a">>),
           Node("linkReference", EmptyStr,
                <<Text(<<"b">>), Node("strong", EmptyStr, <<Text(<<"c">>)>>)>>),
           Leaf("break", EmptyStr),
           Leaf("footnoteReference", EmptyStr),
           Text(<<"d">>)>>)

\* lists of three items: a short one, one of five words of five letters and
\* one of four words of six letters
ListItems ==
    <<ListItem(<<Paragraph(<<"a", "b">>)>>),
      ListItem(<<Paragraph(Words(5, 5, "v"))>>),
      ListItem(<<Paragraph(Words(4, 6, "w"))>>)>>
ListStarts == {1, 9}
ListBlocks ==
    {BulletList(ListItems), [OrderedList(1, ListItems) EXCEPT !.start = <<>>]}
        \cup {OrderedList(st, ListItems) : st \in ListStarts}

BlockLeaves ==
    CodeBlocks \cup HeadingBlocks \cup ListBlocks
        \cup {HtmlBlock, FootnoteTwo, TableBlock, InlineParagraph}

RECURSIVE Nested(_)
Nested(d) ==
    IF d = 0 THEN BlockLeaves
    ELSE LET inner == Nested(d - 1)
         IN  inner \cup {Blockquote(<<b>>) : b \in inner}
                   \cup {FootnoteDefinition(<<b>>) : b \in inner}

BlockTrees == {Root(<<b>>) : b \in Nested(MaxDepth)}
BlockWidths == {22, 50}
BlockEnvs ==
    { WarmEnv, [WarmEnv EXCEPT !.throws = TRUE],
      [WarmEnv EXCEPT !.highlighter = FALSE],
      [WarmEnv EXCEPT !.highlighter = FALSE, !.chalk = FALSE] }

InitBlock ==
    /\ ColdState
    /\ layIn \in [tree : BlockTrees, width : BlockWidths, env : BlockEnvs]
    /\ layOut = <<>>
    /\ hlOut = <<>>
    /\ AgentOff
    /\ SideOff

\* the block of a tree below its block quotes and footnote definitions
RECURSIVE Unwrap(_)
Unwrap(node) ==
    IF node.type \in {"blockquote", "footnoteDefinition"} /\ Len(node.children) = 1
    THEN Unwrap(node.children[1]) ELSE node

Inner == Unwrap(layIn.tree.children[1])

\* what a call of codeToAnsi that ended in an exception leaves
Thrown == Str(<<"EXCEPTION">>)

\* shikiAnsi.codeToAnsi(shikiHighlighter, code, {lang}) for the code block of
\* the tree (part_010:393): its result, or the exception it ends in after
\* the tokens were obtained
Highlight ==
    /\ hlOut = <<>>
    /\ Inner.type = "code"
    /\ layIn.env.highlighter
    /\ LET lang == IF Inner.lang # <<>> THEN Inner.lang ELSE TextLang
       IN  hlOut' = IF layIn.env.throws /\ lang \in LoadedLangs THEN Thrown
                    ELSE codeToAnsi(Inner.value, lang)
    /\ UNCHANGED <<moduleVars, cachedWidth, cacheVars, calls, last, initHistory, layIn,
                   layOut, agentVars, sideVars>>

NextBlock ==
    \/ RenderLayout
    \/ Highlight

BlockSpec == InitBlock /\ [][NextBlock]_vars

(***************************************************************************)
(* AgentRunner.run (part_005:15-67; part_004:15-82 is the same loop with a *)
(* calculator heuristic after it, lines 65-78).  runPc is the await the    *)
(* run is suspended at:                                                    *)
(*   idle   not called yet                                                 *)
(*   chat   this.llm.chat (line 25)                                        *)
(*   tool   tool.execute for the first of the pending calls (line 41)      *)
(*   calc   TOOLS["calculator"].execute of the heuristic (part_004:71)     *)
(*   done   returned                                                       *)
(* The LLM and the tools are the run's collaborators: a call of the LLM    *)
(* resolves with a response, a tool returns a result or throws.            *)
(***************************************************************************)
MaxSteps == 2          \* the largest maxSteps of a run

LimitMessage == "Stopped due to reaching step limit."
Answers == {"42"}

Message(role, content) ==
    [role |-> role, content |-> content, name |-> "", id |-> 0, calls |-> <<>>]

\* what the caller may pass as memory (line 19)
Memories == { <<>>, <<Message("user", "hi"), Message("assistant", "hello")>> }

\* the tool calls a response may hold: of the registered calculator with
\* arguments that parse, of the calculator with arguments that are no JSON,
\* of a tool that is not registered; the id of a call is its position
CallKinds == { [name |-> "calculator", args |-> "json"],
               [name |-> "calculator", args |-> "garbled"],
               [name |-> "nope", args |-> "json"] }
CallCounts == {1, 2}
ToolCallLists ==
    UNION { { [i \in 1..k |-> [id |-> i, name |-> f[i].name, args |-> f[i].args]] :
                f \in [1..k -> CallKinds] } : k \in CallCounts }

Registered == {"calculator", "web_search"}

\* lines 50-57: the assistant message unless the last message is one, then
\* the tool message of the call
Push(msgs, all, call, observation) ==
    LET echoed == IF msgs = <<>> \/ msgs[Len(msgs)].role # "assistant"
                  THEN Append(msgs, [Message("assistant", "") EXCEPT
                                        !.calls = [i \in 1..Len(all) |-> all[i].id]])
                  ELSE msgs
    IN  Append(echoed, [Message("tool", observation) EXCEPT
                           !.name = call.name, !.id = call.id])

\* the call reaches the await of line 41: its tool is registered and its
\* arguments parse
Executes(call) == call.name \in Registered /\ call.args = "json"

\* the loop of line 31 over the calls up to the first that reaches line 41:
\* the others have their observation at once (lines 37 and 44)
RECURSIVE Settle(_, _, _)
Settle(msgs, all, todo) ==
    IF todo = <<>> THEN [messages |-> msgs, pending |-> <<>>]
    ELSE IF Executes(Head(todo)) THEN [messages |-> msgs, pending |-> todo]
    ELSE Settle(Push(msgs, all, Head(todo),
                     IF Head(todo).name \notin Registered
                     THEN "error: Unknown tool" ELSE "error: SyntaxError"),
                all, Tail(todo))

\* the loop header with the test step <= maxSteps
AdvanceOneMore ==
    /\ step' = step + 1
    /\ IF step + 1 <= maxSteps
       THEN runPc' = "chat" /\ runResult' = runResult
       ELSE runPc' = "done" /\ runResult' = LimitMessage

\* the end of a round of the loop of line 24: step++, then the next call of
\* the LLM, or line 66 once step < maxSteps fails
Advance ==
    /\ step' = step + 1
    /\ IF step + 1 < maxSteps
       THEN runPc' = "chat" /\ runResult' = runResult
       ELSE runPc' = "done" /\ runResult' = LimitMessage

rendererVars == <<moduleVars, cachedWidth, cacheVars, calls, last, initHistory, layVars>>

\* run(userGoal, memory) up to its first await (lines 16-25)
Run ==
    /\ runPc = "idle"
    /\ messages' = <<Message("system", "You are a helpful, reliable agent.")>>
                        \o variant.memory \o <<Message("user", "goal")>>
    /\ step' = 0
    /\ IF 0 < maxSteps
       THEN runPc' = "chat" /\ runResult' = runResult
       ELSE runPc' = "done" /\ runResult' = LimitMessage
    /\ UNCHANGED <<rendererVars, sideVars, variant, maxSteps, toolCalls, pending, llmCalls, toolRuns,
                   toolResponses, stepBase>>

\* after the calls that needed no await: the next await, or the next round
AfterSettle(r) ==
    /\ messages' = r.messages
    /\ pending' = r.pending
    /\ IF r.pending = <<>>
       THEN Advance /\ toolRuns' = toolRuns
       ELSE /\ runPc' = "tool"
            /\ toolRuns' = toolRuns + 1
            /\ UNCHANGED <<step, runResult>>

\* the LLM answers with tool calls (lines 25-41)
ChatToolCalls(tcs) ==
    /\ runPc = "chat"
    /\ llmCalls' = llmCalls + 1
    /\ toolResponses' = toolResponses + 1
    /\ toolCalls' = tcs
    /\ stepBase' = Len(messages)
    /\ AfterSettle(Settle(messages, tcs, tcs))
    /\ UNCHANGED <<rendererVars, sideVars, variant, maxSteps>>

\* tool.execute without the try of line 39: an exception leaves run
ToolSettlesNoCatch(outcome) ==
    /\ runPc = "tool"
    /\ IF outcome = "result"
       THEN AfterSettle(Settle(Push(messages, toolCalls, Head(pending), "result"),
                               toolCalls, Tail(pending)))
       ELSE /\ runPc' = "done"
            /\ runResult' = "rejected"
            /\ UNCHANGED <<messages, pending, step, toolRuns>>
    /\ UNCHANGED <<rendererVars, sideVars, variant, maxSteps, toolCalls, llmCalls,
                   toolResponses, stepBase>>

\* tool.execute returns or throws (lines 41-57), and the loop goes on
ToolSettles(outcome) ==
    /\ runPc = "tool"
    /\ AfterSettle(Settle(Push(messages, toolCalls, Head(pending),
                               IF outcome = "result" THEN "result" ELSE "error: thrown"),
                          toolCalls, Tail(pending)))
    /\ UNCHANGED <<rendererVars, sideVars, variant, maxSteps, toolCalls, llmCalls, toolResponses,
                   stepBase>>

\* a response with content going on to the heuristic of part_004:67 as one
\* without content does
ChatContentNotFinal(content) ==
    /\ runPc = "chat"
    /\ llmCalls' = llmCalls + 1
    /\ IF variant.heuristic /\ step = 0 /\ variant.goalHasMath
       THEN /\ runPc' = "calc"
            /\ toolRuns' = toolRuns + 1
            /\ UNCHANGED <<step, runResult>>
       ELSE /\ runPc' = "done"
            /\ runResult' = content
            /\ UNCHANGED <<step, toolRuns>>
    /\ UNCHANGED <<rendererVars, sideVars, variant, maxSteps, messages, toolCalls, pending,
                   toolResponses, stepBase>>

\* the LLM answers without tool calls and with content that is not blank
\* (lines 25-30, 62-63)
ChatContent(content) ==
    /\ runPc = "chat"
    /\ llmCalls' = llmCalls + 1
    /\ runPc' = "done"
    /\ runResult' = content
    /\ UNCHANGED <<rendererVars, sideVars, variant, maxSteps, step, messages, toolCalls, pending,
                   toolRuns, toolResponses, stepBase>>

\* the LLM answers without tool calls and without content, or without a
\* choice (lines 25-30, 62-63; part_004:67-71)
ChatBlank ==
    /\ runPc = "chat"
    /\ llmCalls' = llmCalls + 1
    /\ IF variant.heuristic /\ step = 0 /\ variant.goalHasMath
       THEN /\ runPc' = "calc"
            /\ toolRuns' = toolRuns + 1
            /\ UNCHANGED <<step, runResult>>
       ELSE Advance /\ toolRuns' = toolRuns
    /\ UNCHANGED <<rendererVars, sideVars, variant, maxSteps, messages, toolCalls, pending,
                   toolResponses, stepBase>>

\* the calculator of the heuristic returns (part_004:71-75) or throws
\* (line 76)
CalcSettles(outcome) ==
    /\ runPc = "calc"
    /\ IF outcome = "result"
       THEN runPc' = "done" /\ runResult' = "Computed" /\ step' = step
       ELSE Advance
    /\ UNCHANGED <<rendererVars, sideVars, variant, maxSteps, messages, toolCalls, pending,
                   llmCalls, toolRuns, toolResponses, stepBase>>

InitAgent ==
    /\ ColdState
    /\ layIn = NoLayout
    /\ layOut = <<>>
    /\ hlOut = <<>>
    /\ variant \in [heuristic : BOOLEAN, goalHasMath : BOOLEAN, memory : Memories]
    /\ maxSteps \in 0..MaxSteps
    /\ runPc = "idle"
    /\ step = 0
    /\ messages = <<>>
    /\ toolCalls = <<>>
    /\ pending = <<>>
    /\ runResult = "none"
    /\ llmCalls = 0
    /\ toolRuns = 0
    /\ toolResponses = 0
    /\ stepBase = 0
    /\ SideOff

NextAgent ==
    \/ Run
    \/ \E tcs \in ToolCallLists : ChatToolCalls(tcs)
    \/ \E outcome \in {"result", "thrown"} : ToolSettles(outcome)
    \/ \E content \in Answers : ChatContent(content)
    \/ ChatBlank
    \/ \E outcome \in {"result", "thrown"} : CalcSettles(outcome)

AgentSpec == InitAgent /\ [][NextAgent]_vars

\* every await of the run settles
AgentLive == AgentSpec /\ WF_vars(NextAgent)

(***************************************************************************)
(* TokenSpec: the styling of one token of the highlighter (part_010:84-89, *)
(* 104-117).  An optional field of the token is <<>> when it is missing    *)
(* and <<v>> when it holds v; colours and styles are character sequences.  *)
(***************************************************************************)
Red == <<"#", "f", "0", "0">>
Lime == <<"#", "0", "f", "0">>
Blue == <<"#", "0", "0", "f">>
Long == <<"#", "A", "B", "C", "D", "E", "F", "1", "2">>

HexDigits == {"0", "1", "2", "3", "4", "5", "6", "7", "8", "9",
              "a", "b", "c", "d", "e", "f", "A", "B", "C", "D", "E", "F"}

\* the letters of the pattern in the case the pattern writes them
LowerCase(ch) ==
    CASE ch = "C" -> "c" [] ch = "O" -> "o" [] ch = "L" -> "l" [] ch = "R" -> "r"
      [] OTHER -> ch

\* the match of /color:\s*(#[0-9a-fA-F]{3,8})/i that begins at i: <<>> if
\* there is none, else the group
ColorMatchAt(style, i) ==
    IF i + 5 > Len(style)
       \/ [k \in 1..6 |-> LowerCase(style[i + k - 1])] # <<"c", "o", "l", "o", "r", ":">>
    THEN <<>>
    ELSE LET rest == SubSeq(style, i + 6, Len(style))
             blanks == CHOOSE n \in 0..Len(rest) :
                           /\ \A k \in 1..n : rest[k] = " "
                           /\ n = Len(rest) \/ rest[n + 1] # " "
             from == SubSeq(rest, blanks + 1, Len(rest))
         IN  IF from = <<>> \/ from[1] # "#" THEN <<>>
             ELSE LET digits == CHOOSE n \in 0..(Len(from) - 1) :
                                    /\ \A k \in 1..n : from[k + 1] \in HexDigits
                                    /\ n = Len(from) - 1 \/ from[n + 2] \notin HexDigits
                  IN  IF digits < 3 THEN <<>> ELSE <<SubSeq(from, 1, 1 + Min(digits, 8))>>

\* extractColorFromStyle (part_010:84-89)
extractColorFromStyle(style) ==
    IF style = <<>> THEN <<>>
    ELSE LET at == {i \in 1..Len(style[1]) : ColorMatchAt(style[1], i) # <<>>}
         IN  IF at = {} THEN <<>>
             ELSE ColorMatchAt(style[1], CHOOSE i \in at : \A j \in at : i <= j)

\* the escape chalk.hex(color) opens with
HexOpen(color) ==
    CASE color = Red -> "<hex #f00>"
      [] color = Lime -> "<hex #0f0>"
      [] color = Blue -> "<hex #00f>"
      [] color = Long -> "<hex #ABCDEF12>"

\* n & (1 << k) for a 32-bit integer n
BitSet(n, k) == (n \div (2 ^ k)) % 2 = 1

\* a chalk chain applied to a string: '' stays '', else the escapes of the
\* chain open in its order and close in the reverse order
Styled(opens, closes, content) ==
    IF content = <<>> THEN <<>> ELSE opens \o content \o closes

\* the styling with bit 0 read as bold and bit 1 as italic
tokenToAnsiSwapped(token) ==
    LET color == IF token.color # <<>> THEN token.color
                 ELSE IF token.stylesColor # <<>> THEN token.stylesColor
                 ELSE extractColorFromStyle(token.htmlStyle)
        style == IF token.fontStyle # <<>> THEN token.fontStyle[1] ELSE 0
    IN  Styled((IF color # <<>> THEN <<HexOpen(color[1])>> ELSE <<>>)
                 \o (IF BitSet(style, 1) THEN <<"<i>">> ELSE <<>>)
                 \o (IF BitSet(style, 0) THEN <<"<b>">> ELSE <<>>)
                 \o (IF BitSet(style, 2) THEN <<"<u>">> ELSE <<>>),
               (IF BitSet(style, 2) THEN <<"</u>">> ELSE <<>>)
                 \o (IF BitSet(style, 0) THEN <<"</b>">> ELSE <<>>)
                 \o (IF BitSet(style, 1) THEN <<"</i>">> ELSE <<>>)
                 \o (IF color # <<>> THEN <<"</fg>">> ELSE <<>>),
               token.content)

\* the function of line 104 applied to a token (lines 105-117)
tokenToAnsi(token) ==
    LET color == IF token.color # <<>> THEN token.color
                 ELSE IF token.stylesColor # <<>> THEN token.stylesColor
                 ELSE extractColorFromStyle(token.htmlStyle)
        style == IF token.fontStyle # <<>> THEN token.fontStyle[1] ELSE 0
    IN  Styled((IF color # <<>> THEN <<HexOpen(color[1])>> ELSE <<>>)
                 \o (IF BitSet(style, 0) THEN <<"<i>">> ELSE <<>>)
                 \o (IF BitSet(style, 1) THEN <<"<b>">> ELSE <<>>)
                 \o (IF BitSet(style, 2) THEN <<"<u>">> ELSE <<>>),
               (IF BitSet(style, 2) THEN <<"</u>">> ELSE <<>>)
                 \o (IF BitSet(style, 1) THEN <<"</b>">> ELSE <<>>)
                 \o (IF BitSet(style, 0) THEN <<"</i>">> ELSE <<>>)
                 \o (IF color # <<>> THEN <<"</fg>">> ELSE <<>>),
               token.content)

\* the inline styles of the tokens and the hex colour each holds, if any
StyleBlue == <<"c", "o", "l", "o", "r", ":">> \o Blue
StyleLong == <<"C", "o", "l", "o", "r", ":", " ">> \o Long
                \o <<";", "f", "o", "n", "t", ":", "b">>
StyleNamed == <<"c", "o", "l", "o", "r", ":", "r", "e", "d">>
StyleFont == <<"f", "o", "n", "t", "-", "s", "t", "y", "l", "e", ":", "i">>
HtmlStyles == { [style |-> <<>>, color |-> <<>>],
                [style |-> <<StyleBlue>>, color |-> <<Blue>>],
                [style |-> <<StyleLong>>, color |-> <<Long>>],
                [style |-> <<StyleNamed>>, color |-> <<>>],
                [style |-> <<StyleFont>>, color |-> <<>>] }

\* fontStyle: missing, FontStyle.NotSet, and the values of four bits
FontStyles == { <<>>, <<-1>> } \cup { <<n>> : n \in 0..15 }

Tokens ==
    { [color |-> c, stylesColor |-> sc, htmlStyle |-> h.style, fontStyle |-> f,
       content |-> <<"x">>] :
        c \in { <<>>, <<Red>> }, sc \in { <<>>, <<Lime>> }, h \in HtmlStyles,
        f \in FontStyles }

InitToken ==
    /\ ColdState
    /\ layIn = NoLayout
    /\ layOut = <<>>
    /\ hlOut = <<>>
    /\ AgentOff
    /\ AppOff
    /\ CliOff
    /\ tokIn \in Tokens
    /\ tokOut = <<>>

\* line 104: the token is styled
StyleToken ==
    /\ tokOut = <<>>
    /\ tokOut' = <<tokenToAnsi(tokIn)>>
    /\ UNCHANGED <<rendererVars, agentVars, appVars, tokIn, cli>>

NextToken == StyleToken

TokenSpec == InitToken /\ [][NextToken]_vars

(***************************************************************************)
(* CliSpec: CliProvider.chat (src/providers/cli.ts:11-33).  The text of a  *)
(* stream is a sequence of characters, "NL" being the line feed.  proc is  *)
(* what the command does: whether Bun.spawn finds it, its exit code and    *)
(* what it writes.  pc is the await perform is suspended at:               *)
(*   idle     not called yet                                               *)
(*   exited   await proc.exited (line 26)                                  *)
(*   stdout   await ... text() of proc.stdout (line 27)                    *)
(*   stderr   await ... text() of proc.stderr (line 29)                    *)
(*   settled  the ResultAsync of chat has its value                        *)
(***************************************************************************)
WhiteSpace == {" ", "NL", "TAB"}

\* String.prototype.trim
Trim(text) ==
    LET ink == {i \in 1..Len(text) : text[i] \notin WhiteSpace}
    IN  IF ink = {} THEN <<>>
        ELSE SubSeq(text, CHOOSE i \in ink : \A j \in ink : i <= j,
                          CHOOSE i \in ink : \A j \in ink : i >= j)

Ok(value) == [tag |-> "Ok", value |-> value]
Err(error) == [tag |-> "Err", error |-> error]

\* createProviderError (src/utils/errors.ts:3-12), the original error left out
createProviderError(provider, message) ==
    [kind |-> "provider", provider |-> provider, message |-> message]

\* what perform's promise settles with
Fulfilled(value) == [state |-> "fulfilled", value |-> value]
Rejected(reason) == [state |-> "rejected", reason |-> reason]

\* the promise of perform handed on as it is
fromPromiseUnmapped(settlement) ==
    IF settlement.state = "fulfilled" THEN Ok(settlement.value)
    ELSE [tag |-> "rejected", reason |-> settlement.reason]

\* ResultAsync.fromPromise with the mapper of lines 12-14
fromPromise(settlement) ==
    IF settlement.state = "fulfilled" THEN Ok(settlement.value)
    ELSE Err(createProviderError("cli", "CLI 'ai' failed: " \o settlement.reason))

ExitCodes == {0, 1, 127}
Outputs == { <<>>, <<"h", "i">>, <<" ", "h", "i", "NL">>, <<"NL", " ">>,
             <<"TAB", "h", " ", "i", "NL", "NL">> }
Processes ==
    [spawns : BOOLEAN, exitCode : ExitCodes, stdout : Outputs, stderr : { <<>>, <<"e">> }]

InitCli ==
    /\ ColdState
    /\ layIn = NoLayout
    /\ layOut = <<>>
    /\ hlOut = <<>>
    /\ AgentOff
    /\ AppOff
    /\ TokenOff
    /\ \E proc \in Processes :
          cli = [pc |-> "idle", proc |-> proc, exitCode |-> -1, stdoutText |-> <<>>,
                 stderrText |-> <<>>, result |-> [tag |-> "none"]]

\* chat and perform up to the await of line 26; Bun.spawn throws when the
\* command cannot be started
CliChat ==
    /\ cli.pc = "idle"
    /\ cli' = IF cli.proc.spawns THEN [cli EXCEPT !.pc = "exited"]
              ELSE [cli EXCEPT !.pc = "settled",
                               !.result = fromPromise(Rejected("spawn"))]
    /\ UNCHANGED <<rendererVars, agentVars, appVars, tokIn, tokOut>>

\* line 26 resumed: the process has exited
CliExited ==
    /\ cli.pc = "exited"
    /\ cli' = [cli EXCEPT !.pc = "stdout", !.exitCode = cli.proc.exitCode]
    /\ UNCHANGED <<rendererVars, agentVars, appVars, tokIn, tokOut>>

\* line 27 resumed: lines 28-32
CliStdoutRead ==
    /\ cli.pc = "stdout"
    /\ cli' = IF cli.exitCode # 0
              THEN [cli EXCEPT !.pc = "stderr", !.stdoutText = cli.proc.stdout]
              ELSE [cli EXCEPT !.pc = "settled", !.stdoutText = cli.proc.stdout,
                               !.result = fromPromise(Fulfilled(Trim(cli.proc.stdout)))]
    /\ UNCHANGED <<rendererVars, agentVars, appVars, tokIn, tokOut>>

\* line 29 resumed: the throw of line 30
CliStderrRead ==
    /\ cli.pc = "stderr"
    /\ cli' = [cli EXCEPT !.pc = "settled", !.stderrText = cli.proc.stderr,
                          !.result = fromPromise(Rejected("exit"))]
    /\ UNCHANGED <<rendererVars, agentVars, appVars, tokIn, tokOut>>

NextCli ==
    \/ CliChat
    \/ CliExited
    \/ CliStdoutRead
    \/ CliStderrRead

CliSpec == InitCli /\ [][NextCli]_vars

(***************************************************************************)
(* AppSpec: the TUI (src/tui/App.tsx:9-123) on top of the renderer, from   *)
(* the start of the process.  A message of the history holds its role, its *)
(* content, its rendering (<<>> while undefined) and, as history, the      *)
(* width that rendering was asked for.  submitPc is the await submit is    *)
(* suspended at: idle (not running), chat (line 29), render (line 35).  A  *)
(* job is a run of the effect of lines 70-87 whose Promise.all has not     *)
(* settled: its width, the history it took and the first of its render     *)
(* calls, one for each assistant message in the order of the messages.     *)
(* What follows the settling of a promise (lines 36-46, line 85) runs      *)
(* before the next event of the process is taken.                          *)
(***************************************************************************)
MaxSubmits == 2        \* goals entered in one behaviour

AppColumns == {25, 28, 84}
AnswerText == DocLong
ErrorText == <<"E", "r", "r">>
GoalText == <<"g", "o">>

HistoryMessage(role, content, rendered, width) ==
    [role |-> role, content |-> content, rendered |-> rendered, width |-> width]

\* renderMarkdownToAnsi(markdown, width) up to its first await, as RenderCall
\* leaves the call
Entered(markdown, width) ==
    LET entered == [IdleCall EXCEPT !.md = markdown, !.width = width]
    IN  IF markdown = <<>> THEN [entered EXCEPT !.pc = "done", !.outcome = "returned"]
        ELSE IF initialized THEN [entered EXCEPT !.pc = "ready"]
        ELSE [entered EXCEPT !.pc = "imports", !.initStarted = TRUE]

IdleCalls == {c \in Calls : calls[c].pc = "idle"}
FirstIdle == CHOOSE c \in IdleCalls : \A d \in IdleCalls : c <= d

\* what line 35 and line 79 get from a call that has settled
RenderedBy(c) == IF calls[c].outcome = "returned" THEN <<calls[c].result>> ELSE <<>>

\* the assistant messages of a history
Assistants(h) == {i \in 1..Len(h) : h[i].role = "assistant"}

\* the render call of a job for message i of its history
JobCall(job, i) ==
    job.first + Cardinality({k \in Assistants(job.snapshot) : k < i})

JobCalls(job) == {JobCall(job, i) : i \in Assistants(job.snapshot)}

JobReady(job) == \A c \in JobCalls(job) : calls[c].pc = "done"

\* a promise has settled and what follows it has not run yet
SettlePending ==
    \/ submitPc = "render" /\ calls[submitCall].pc = "done"
    \/ \E j \in 1..Len(jobs) : JobReady(jobs[j])

\* submit, lines 24-29
Submit ==
    /\ ~SettlePending
    /\ submitPc = "idle"
    /\ ~busy
    /\ submits < MaxSubmits
    /\ history' = Append(history, HistoryMessage("user", GoalText, <<>>, 0))
    /\ busy' = TRUE
    /\ submitPc' = "chat"
    /\ submits' = submits + 1
    /\ UNCHANGED <<rendererVars, agentVars, stdoutColumns, termWidth, submitCall, jobs,
                   tokIn, tokOut, cli>>

\* line 29 resumed with an answer: lines 30-35
ChatAnswered ==
    /\ ~SettlePending
    /\ submitPc = "chat"
    /\ IdleCalls # {}
    /\ calls' = [calls EXCEPT ![FirstIdle] = Entered(AnswerText, stdoutColumns - 4)]
    /\ submitCall' = FirstIdle
    /\ submitPc' = "render"
    /\ UNCHANGED <<moduleVars, cachedWidth, cacheVars, last, initHistory, layVars,
                   agentVars, stdoutColumns, termWidth, history, busy, jobs, submits,
                   tokIn, tokOut, cli>>

\* line 29 resumed with an error: lines 41-46
ChatFailed ==
    /\ ~SettlePending
    /\ submitPc = "chat"
    /\ history' = Append(history, HistoryMessage("assistant", ErrorText, <<>>, 0))
    /\ busy' = FALSE
    /\ submitPc' = "idle"
    /\ UNCHANGED <<rendererVars, agentVars, stdoutColumns, termWidth, submitCall, jobs,
                   submits, tokIn, tokOut, cli>>

\* line 35 resumed: lines 36-46
SubmitRendered ==
    /\ submitPc = "render"
    /\ calls[submitCall].pc = "done"
    /\ history' = Append(history, HistoryMessage("assistant", calls[submitCall].md,
                                                 RenderedBy(submitCall),
                                                 calls[submitCall].width))
    /\ busy' = FALSE
    /\ submitPc' = "idle"
    /\ UNCHANGED <<rendererVars, agentVars, stdoutColumns, termWidth, submitCall, jobs,
                   submits, tokIn, tokOut, cli>>

\* the terminal is resized to next columns: handleResize (lines 51-54) and,
\* as termWidth has changed, the effect of lines 70-85 up to its awaits
Resize(next) ==
    /\ ~SettlePending
    /\ next # stdoutColumns
    /\ stdoutColumns' = next
    /\ termWidth' = next
    /\ IF history = <<>>
       THEN UNCHANGED <<renderCache, renderUse, last, calls, jobs>>
       ELSE LET widthNow == next - 4
                pat == <<":">> \o NumToString(getWidthBucket(widthNow)) \o <<":">>
                map == SelectSeq(renderCache, LAMBDA e : ~Includes(e.k, pat))
                job == [width |-> widthNow, snapshot |-> history,
                        first |-> IF IdleCalls = {} THEN MaxCalls + 1 ELSE FirstIdle]
            IN  /\ \A c \in JobCalls(job) : c \in IdleCalls
                /\ renderCache' = map
                /\ renderUse' = Kept(renderUse, map)
                /\ last' = Event("invalidate", 0, widthNow)
                /\ calls' = [c \in Calls |->
                               IF c \in JobCalls(job)
                               THEN Entered(history[CHOOSE i \in Assistants(history) :
                                                       JobCall(job, i) = c].content,
                                            widthNow)
                               ELSE calls[c]]
                /\ jobs' = Append(jobs, job)
    /\ UNCHANGED <<moduleVars, cachedWidth, astCache, astUse, clock, initHistory, layVars,
                   agentVars, history, busy, submitPc, submitCall, submits,
                   tokIn, tokOut, cli>>

\* the Promise.all of job j has settled: line 85
JobSettles(j) ==
    /\ j \in 1..Len(jobs)
    /\ JobReady(jobs[j])
    /\ history' = [i \in 1..Len(jobs[j].snapshot) |->
                     IF jobs[j].snapshot[i].role # "assistant" THEN jobs[j].snapshot[i]
                     ELSE [jobs[j].snapshot[i] EXCEPT
                              !.rendered = RenderedBy(JobCall(jobs[j], i)),
                              !.width = jobs[j].width]]
    /\ jobs' = SubSeq(jobs, 1, j - 1) \o SubSeq(jobs, j + 1, Len(jobs))
    /\ UNCHANGED <<rendererVars, agentVars, stdoutColumns, termWidth, busy, submitPc,
                   submitCall, submits, tokIn, tokOut, cli>>

InitApp ==
    /\ ColdState
    /\ layIn = NoLayout
    /\ layOut = <<>>
    /\ hlOut = <<>>
    /\ AgentOff
    /\ TokenOff
    /\ CliOff
    /\ stdoutColumns \in AppColumns
    /\ termWidth = stdoutColumns
    /\ history = <<>>
    /\ busy = FALSE
    /\ submitPc = "idle"
    /\ submitCall = 0
    /\ jobs = <<>>
    /\ submits = 0

NextApp ==
    \/ SubmitRendered
    \/ \E j \in 1..Len(jobs) : JobSettles(j)
    \/ Submit
    \/ ChatAnswered
    \/ ChatFailed
    \/ \E next \in AppColumns : Resize(next)
    \/ ~SettlePending /\ \E c \in Calls : LoadParser(c)
    \/ ~SettlePending /\ \E c \in Calls : CreateHighlighter(c)
    \/ ~SettlePending /\ \E c \in Calls : HighlighterCreated(c)
    \/ ~SettlePending /\ \E c \in Calls : FinishInit(c)
    \/ ~SettlePending /\ \E c \in Calls : InitFailure(c)
    \/ ~SettlePending /\ \E c \in Calls : RenderPrimary(c)
    \/ ~SettlePending /\ \E c \in Calls : PrimaryFailure(c)
    \/ ~SettlePending /\ \E c \in Calls : LegacyReturns(c)
    \/ ~SettlePending /\ \E c \in Calls : LegacyThrows(c)

AppSpec == InitApp /\ [][NextApp]_vars

(***************************************************************************)
(* The claims C1 - C3, read on Spec.                                       *)
(***************************************************************************)

\* C1: renderMarkdownToAnsi never throws or rejects: every render call that
\* has settled, whatever failed on its way (initialization, the primary
\* pipeline, the legacy pipeline), has returned a string.
C1_NeverRejects ==
    \A c \in Calls : calls[c].pc = "done" => calls[c].outcome = "returned"

\* the calls inside ensureInitialized that have constructed a parser of their
\* own (line 58) and have not left the initialization yet
Acquiring == {c \in Calls : calls[c].pc \in {"shiki", "hlwait", "chalk"}}

\* C2: when render calls overlap while initialization is in flight, the
\* acquisition of the resources (parser, highlighter) is started once: never
\* are two calls at the same time each in an acquisition of its own.
C2_OneAcquisition == Cardinality(Acquiring) <= 1

\* C3: a call whose initialization fails returns the output of the legacy
\* pipeline and leaves the initialized flag false; a call that arrives while
\* the flag is false attempts initialization again; a call that comes out of
\* its initialization and is answered by the primary pipeline returns that
\* pipeline's result.
C3_InitFailureFallsBack ==
    [][\A c \in Calls :
         /\ InitFailure(c) => ~initialized'
         /\ (calls[c].pc # "done" /\ calls'[c].pc = "done" /\ calls[c].initFailed)
               => /\ calls'[c].outcome = "returned"
                  /\ calls'[c].via = "legacy"
                  /\ calls'[c].result = renderWithMarked(calls[c].md, calls[c].width)
         /\ (calls[c].pc = "idle" /\ calls'[c].pc \notin {"idle", "done"} /\ ~initialized)
               => calls'[c].pc = "imports" /\ calls'[c].initStarted
         /\ (calls[c].pc = "ready" /\ calls'[c].pc = "done" /\ calls[c].initStarted)
               => calls'[c].outcome = "returned" /\ calls'[c].via = "primary"]_vars

(***************************************************************************)
(* The claims C4 and C5, read on LayoutSpec.                               *)
(***************************************************************************)
BoxChars == {"TL", "TR", "BL", "BR", "VBAR", "HBAR"}

\* a line of a code box, or a piece of one
IsBoxLine(line) == \E i \in 1..Len(line) : line[i] \in BoxChars

\* the words of a line: what stands between its blanks, the markers of block
\* quotes and bullet lists aside
LineWords(line) ==
    SelectSeq(SplitSpaces(StripAnsi(line)),
              LAMBDA w : w # <<>> /\ w # <<">">> /\ w # <<"BULLET">>)

SingleToken(line) == Len(LineWords(line)) <= 1

\* C4: every line of a rendering that is no line of a code box and no single
\* unbreakable token is at most the requested width wide, at every nesting
\* of block quotes and lists and for every requested width.
C4_WidthBound ==
    layOut # <<>> =>
        \A i \in 1..Len(layOut) :
            (~IsBoxLine(layOut[i]) /\ ~SingleToken(layOut[i]))
                => StringWidth(layOut[i]) <= layIn.width

\* what a line holds of a box: from its first to its last box character
BoxPart(line) ==
    LET at == {i \in 1..Len(line) : line[i] \in BoxChars}
        lo == CHOOSE i \in at : \A j \in at : i <= j
        hi == CHOOSE i \in at : \A j \in at : j <= i
    IN  SubSeq(line, lo, hi)

\* C5: the top border, every content line and the bottom border of a code
\* box are all boxWidth = max(40, min(current width, requested width)) wide,
\* wherever the code block stands (the current width being the requested
\* one, as line 323 takes it).
C5_BoxLinesEqual ==
    layOut # <<>> =>
        \A i \in 1..Len(layOut) :
            IsBoxLine(layOut[i])
                => LET currentWidth == layIn.width
                       boxWidth == Max(40, Min(currentWidth, layIn.width))
                   IN  StringWidth(BoxPart(layOut[i])) = boxWidth

(***************************************************************************)
(* The claims C6 - C8, read on FullSpec.                                   *)
(***************************************************************************)

\* the keys of a map stand in the order of their last read hit or write
InUseOrder(map, use) ==
    \A i \in 1..(Len(map) - 1) : use[map[i].k] < use[map[i + 1].k]

\* the key of a map whose last read hit or write is the oldest
Oldest(map, use) ==
    CHOOSE k \in MapKeySet(map) : \A o \in MapKeySet(map) : use[k] <= use[o]

\* the keys a step removes from a map
Removed(map, mapAfter) == MapKeySet(map) \ MapKeySet(mapAfter)

\* what an access to key (a read hit or a write) does to a map of at most max
\* entries: the key is the most recently used one afterwards, and if it was
\* new and the map full, the oldest key and no other is gone
AccessEffect(map, use, mapAfter, useAfter, key, max) ==
    /\ mapAfter # <<>>
    /\ mapAfter[Len(mapAfter)].k = key
    /\ InUseOrder(mapAfter, useAfter)
    /\ Removed(map, mapAfter) =
          IF ~MapHas(map, key) /\ Len(map) = max THEN {Oldest(map, use)} ELSE {}

\* C6: in both caches every read hit and every write makes the key the most
\* recently used one, and a new key put into a full cache removes exactly the
\* key whose last read hit or write is the oldest, never the new key itself.
C6_LruOrder ==
    [][\A c \in Calls :
         (calls[c].pc = "ready" /\ calls'[c].pc = "done")
            => /\ AccessEffect(astCache, astUse, astCache', astUse',
                               hashKey(calls[c].md), MAX_AST_CACHE)
               /\ AccessEffect(renderCache, renderUse, renderCache', renderUse',
                               cacheKey(hashKey(calls[c].md), calls[c].width),
                               MAX_RENDER_CACHE)]_vars

\* a call read an old tree, which made it the newest, and a later call put a
\* new tree into the full cache, which removed the oldest of the others
C6_Witness ==
    /\ Len(astCache) = MAX_AST_CACHE
    /\ MapHas(astCache, hashKey(FillDoc(1)))
    /\ ~MapHas(astCache, hashKey(FillDoc(2)))
    /\ astCache[Len(astCache)].k = hashKey(DocAB)

\* C7: after render, clearRenderCache and invalidateCacheForWidth calls in
\* any order the render cache holds at most MAX_RENDER_CACHE entries and the
\* tree cache at most MAX_AST_CACHE, and the lruSet of a render call removes
\* at most one entry.
C7_CachesBounded ==
    [][/\ Len(renderCache) <= MAX_RENDER_CACHE /\ Len(renderCache') <= MAX_RENDER_CACHE
       /\ Len(astCache) <= MAX_AST_CACHE /\ Len(astCache') <= MAX_AST_CACHE
       /\ \A c \in Calls :
             (calls[c].pc = "ready" /\ calls'[c].pc = "done")
                => /\ Cardinality(Removed(astCache, astCache')) <= 1
                   /\ Cardinality(Removed(renderCache, renderCache')) <= 1]_vars

\* a document new to both caches was rendered while both were full
C7_Witness ==
    /\ last.op = "render"
    /\ calls[last.call].md = DocAB /\ calls[last.call].width = 24
    /\ calls[last.call].walked
    /\ Len(renderCache) = MAX_RENDER_CACHE
    /\ Len(astCache) = MAX_AST_CACHE
    /\ ~MapHas(astCache, hashKey(FillDoc(1)))

\* the bucket a render-cache key was written for: what stands between its
\* first two colons (part_010:170)
KeyBucket(key) ==
    LET colons == {i \in 1..Len(key) : key[i] = ":"}
        c1 == CHOOSE i \in colons : \A j \in colons : i <= j
        c2 == CHOOSE i \in colons \ {c1} : \A j \in colons \ {c1} : i <= j
    IN  SubSeq(key, c1 + 1, c2 - 1)

\* C8: invalidateCacheForWidth(w) removes exactly the render-cache entries of
\* the bucket getWidthBucket(w): the entries of every other bucket stay, with
\* their values and in their order, and the tree cache is unchanged.
C8_InvalidateExact ==
    [][\A w \in {x[1] : x \in FullWidths} :
         invalidateCacheForWidth(w)
            => /\ renderCache' =
                     SelectSeq(renderCache,
                               LAMBDA e : KeyBucket(e.k) # NumToString(getWidthBucket(w)))
               /\ astCache' = astCache]_vars

\* width 80 was invalidated while the cache held entries of the buckets 80
\* and 20: those of bucket 20 are all that is left
C8_Witness ==
    /\ last.op = "invalidate" /\ last.width = 80
    /\ renderCache # <<>>
    /\ \A i \in 1..Len(renderCache) : KeyBucket(renderCache[i].k) = <<"2", "0">>
    /\ Len(astCache) >= MAX_AST_CACHE - 1

(***************************************************************************)
(* The claims C9 and C10, read on CacheSpec.                               *)
(***************************************************************************)

\* C9: the render call that follows invalidateCacheForWidth(w) and asks for
\* width w walks the tree afresh; one that asks for a width of another
\* bucket, for which the render cache holds an entry from before, is served
\* from the render cache.
C9_FreshAfterInvalidate ==
    [][\A c \in Calls :
         (calls[c].pc = "ready" /\ calls'[c].pc = "done" /\ last.op = "invalidate")
            => /\ calls[c].width = last.width
                    => calls'[c].walked /\ ~calls'[c].served
               /\ (/\ getWidthBucket(calls[c].width) # getWidthBucket(last.width)
                   /\ MapHas(renderCache, cacheKey(hashKey(calls[c].md), calls[c].width)))
                    => calls'[c].served /\ ~calls'[c].walked]_vars

\* C10: of two successive render calls for the same document and width that
\* the primary pipeline answers, with no invalidation in between, the second
\* returns what the first returned and is served from the render cache.
C10_SecondFromCache ==
    [][\A c \in Calls :
         (/\ calls[c].pc = "ready" /\ calls'[c].pc = "done"
          /\ last.op = "render"
          /\ calls[last.call].pc = "done" /\ calls[last.call].via = "primary"
          /\ calls[last.call].md = calls[c].md
          /\ calls[last.call].width = calls[c].width)
            => /\ calls'[c].result = calls[last.call].result
               /\ calls'[c].served /\ ~calls'[c].walked]_vars

(***************************************************************************)
(* The claims C11 and C12, read on EntrySpec.                              *)
(***************************************************************************)

\* C11: the target width renderMarkdownToAnsi works with is the width of the
\* call when that is a positive integer, 80 when the call has no width or a
\* width that is not positive, and never less than 1.
C11_EffectiveWidth ==
    [][\A c \in Calls, m \in EntryDocs, w \in EntryWidths :
         RenderCall(c, m, w)
            => /\ calls'[c].width = IF w # <<>> /\ w[1] > 0 THEN w[1] ELSE 80
               /\ calls'[c].width >= 1]_vars

\* the content hash a render-cache key begins with: what stands before its
\* first colon
KeyHash(key) ==
    LET colons == {i \in 1..Len(key) : key[i] = ":"}
        c1 == CHOOSE i \in colons : \A j \in colons : i <= j
    IN  SubSeq(key, 1, c1 - 1)

\* the calls for a document that have been answered
Answered(m) == {c \in Calls : calls[c].pc = "done" /\ calls[c].md = m}

\* C12: the key of the tree cache is made of the content alone and the key
\* of the render cache of content, width bucket and theme: however often
\* and at whatever widths a document was rendered, it was parsed once and
\* has one tree, and it has as many render-cache entries as the widths asked
\* for fall into buckets round(w/10)*10, one entry for each bucket.
C12_KeysByContentAndBucket ==
    \A m \in EntryDocs :
        LET buckets == {getWidthBucket(calls[c].width) : c \in Answered(m)}
            entries == {i \in 1..Len(renderCache) : KeyHash(renderCache[i].k) = hashKey(m)}
            trees == {i \in 1..Len(astCache) : astCache[i].k = hashKey(m)}
        IN  /\ Cardinality(entries) = Cardinality(buckets)
            /\ {KeyBucket(renderCache[i].k) : i \in entries}
                  = {NumToString(b) : b \in buckets}
            /\ \A i \in entries : Includes(renderCache[i].k, ThemeSuffix)
            /\ Cardinality(trees) = IF Answered(m) = {} THEN 0 ELSE 1
            /\ Cardinality({c \in Answered(m) : calls[c].parsed})
                  = IF Answered(m) = {} THEN 0 ELSE 1

\* one document was rendered at two widths of different buckets: the second
\* call did not parse, and the render cache holds two entries
C12_Witness ==
    /\ Answered(DocAB) = Calls
    /\ getWidthBucket(calls[1].width) # getWidthBucket(calls[2].width)
    /\ calls[1].parsed # calls[2].parsed
    /\ Len(renderCache) >= 2
    /\ Len(astCache) = 1

(***************************************************************************)
(* The claims C13 - C17, read on BlockSpec.                                *)
(***************************************************************************)

\* the number of characters of a set a line begins with
Lead(line, set) ==
    CHOOSE n \in 0..Len(line) :
        /\ \A i \in 1..n : line[i] \in set
        /\ n = Len(line) \/ line[n + 1] \notin set

\* a line without its escapes and without the block-quote markers and the
\* blanks it begins with
Visible(line) ==
    LET plain == StripAnsi(line)
    IN  SubSeq(plain, Lead(plain, {">", " "}) + 1, Len(plain))

FirstOf(line) == BoxPart(line)[1]
LastOf(line) == BoxPart(line)[Len(BoxPart(line))]

VisibleLines == [i \in 1..Len(layOut) |-> Visible(layOut[i])]

C16_HeadingPrefix ==
    (layOut # <<>> /\ Inner.type = "heading")
        => /\ Len(layOut) = 1
           /\ Inner.depth \in {1, 2} => VisibleLines[1] = HeadingText
           /\ Inner.depth >= 3
                 => /\ VisibleLines[1] = Repeat("#", Inner.depth) \o <<" ">> \o HeadingText
                    /\ \E j \in 1..Len(layOut[1]) : layOut[1][j] = "<b>"
           /\ Inner.depth > 4
                 => \E j \in 1..Len(layOut[1]) : layOut[1][j] = "<yellow>"

\* the block quotes around the block of the tree
RECURSIVE QuoteDepth(_)
QuoteDepth(node) ==
    IF node.type \in {"blockquote", "footnoteDefinition"} /\ Len(node.children) = 1
    THEN (IF node.type = "blockquote" THEN 1 ELSE 0) + QuoteDepth(node.children[1])
    ELSE 0

\* the lines of a rendered list without escapes and block-quote markers
ListLines ==
    LET q == QuoteDepth(layIn.tree.children[1])
    IN  [i \in 1..Len(layOut) |->
            LET plain == StripAnsi(layOut[i]) IN SubSeq(plain, 2 * q + 1, Len(plain))]

Digits == {"0", "1", "2", "3", "4", "5", "6", "7", "8", "9"}

\* the line begins, after its blanks, with a list marker
IsMarkerLine(line) ==
    Lead(line, {" "}) < Len(line) /\ line[Lead(line, {" "}) + 1] \in Digits \cup {"BULLET"}

\* the marker of a marker line: what stands between its blanks and the next
MarkerOf(line) ==
    LET rest == SubSeq(line, Lead(line, {" "}) + 1, Len(line))
    IN  SubSeq(rest, 1, CHOOSE n \in 1..Len(rest) :
                            /\ \A i \in 1..n : rest[i] # " "
                            /\ n = Len(rest) \/ rest[n + 1] = " ")

\* C17: item k (from 0) of an ordered list that starts at s begins, after
\* the indent of the list, with the marker "(s+k)."; and every continuation
\* line of a list item is indented by exactly the column at which the text
\* of the item's first line starts: indent, marker width and one blank.
C17_ListMarkers ==
    (layOut # <<>> /\ Inner.type = "list")
        => LET indent == 2 * QuoteDepth(layIn.tree.children[1])
               start == IF Inner.start # <<>> THEN Inner.start[1] ELSE 1
               firsts == {i \in 1..Len(layOut) : IsMarkerLine(ListLines[i])}
               nth(i) == Cardinality({j \in firsts : j < i})
               own(i) == CHOOSE j \in firsts : j <= i /\ \A o \in firsts : o <= i => o <= j
           IN  /\ Cardinality(firsts) = Len(Inner.children)
               /\ 1 \in firsts
               /\ \A i \in firsts :
                     /\ Lead(ListLines[i], {" "}) = indent
                     /\ Inner.ordered
                           => MarkerOf(ListLines[i]) = NumToString(start + nth(i)) \o <<".">>
               /\ \A i \in (1..Len(layOut)) \ firsts :
                     Lead(ListLines[i], {" "})
                        = indent + Len(MarkerOf(ListLines[own(i)])) + 1

(***************************************************************************)
(* The claims C18 - C20, read on the runs of the agent.                    *)
(***************************************************************************)

C19_OneAssistantPerStep ==
    (toolCalls # <<>> /\ pending = <<>>)
        => LET appended == SubSeq(messages, stepBase + 1, Len(messages))
               k == Len(toolCalls)
           IN  /\ Len(appended) = k + 1
               /\ appended[1].role = "assistant"
               /\ appended[1].calls = [i \in 1..k |-> toolCalls[i].id]
               /\ \A i \in 1..k :
                     /\ appended[i + 1].role = "tool"
                     /\ appended[i + 1].id = toolCalls[i].id

\* C20: a response without tool calls whose trimmed content is not empty
\* ends the run at once with that content as its result, and after the run
\* has returned no LLM call is made and no tool is executed.
C20_AnswerReturnsAtOnce ==
    [][/\ \A content \in Answers :
            ChatContent(content)
               => /\ runPc' = "done" /\ runResult' = content
                  /\ llmCalls' = llmCalls + 1 /\ toolRuns' = toolRuns
       /\ runPc = "done"
            => runPc' = "done" /\ llmCalls' = llmCalls /\ toolRuns' = toolRuns]_vars

\* the second response of a run held an answer, after a first with a tool
\* call that was executed
C20_Witness ==
    /\ runPc = "done"
    /\ runResult \in Answers
    /\ llmCalls = 2 /\ toolRuns = 1

(***************************************************************************)
(* The claims C22 - C27, read on the render calls.                         *)
(***************************************************************************)

\* the step is the cache section of call c (lines 163-172)
SectionOf(c) ==
    /\ calls[c].pc = "ready"
    /\ clock' = clock + 2
    /\ last' = Event("render", c, calls[c].width)

\* C22: in a render of the primary pipeline the tree-cache lookup, the
\* render-cache lookup, the walk and the render-cache write are one step: the
\* step that reads the caches for a call also ends the call's primary
\* pipeline, writes what the walk gave under the call's key into the render
\* cache as that very step found it, and moves no other call.
C22_NoSuspension ==
    [][\A c \in Calls :
         SectionOf(c)
           => LET key == cacheKey(hashKey(calls[c].md), calls[c].width)
              IN  /\ calls'[c].pc \in {"done", "legacy"}
                  /\ \A d \in Calls \ {c} : calls'[d] = calls[d]
                  /\ calls'[c].walked
                       => /\ calls'[c].pc = "done"
                          /\ renderCache' = lruSet(lruGet(renderCache, key).map, key,
                                                   calls'[c].result, MAX_RENDER_CACHE)]_vars

\* a call has walked and written while the other call was suspended before
\* its lookups
C22_Witness ==
    \E c, d \in Calls :
        /\ c # d
        /\ calls[c].walked /\ calls[c].pc = "done"
        /\ last = Event("render", c, calls[c].width)
        /\ calls[d].pc = "ready"

\* the characters of a text that are neither blanks nor escapes
Ink(text) == SelectSeq(text, LAMBDA ch : ch # " " /\ ~IsAnsi(ch))

\* the calls the primary pipeline has answered
PrimaryAnswered ==
    {c \in Calls : calls[c].pc = "done" /\ calls[c].outcome = "returned"
                      /\ calls[c].via = "primary"}

\* C23: two different documents never share an entry of a cache: the tree
\* held under the key of a rendered document is the tree of that document,
\* and what a call returns shows the text of the document it was called
\* with, never that of another document.
C23_OwnRendering ==
    \A c \in PrimaryAnswered :
        /\ Ink(Flatten(calls[c].result)) = Ink(calls[c].md)
        /\ \A i \in 1..Len(astCache) :
              astCache[i].k = hashKey(calls[c].md) => astCache[i].v = Parse(calls[c].md)

\* C25: for a fixed document, whatever render and invalidation calls came
\* before, a call returns what a render of the document at the width of the
\* call gives without any cache (read on the behaviours that render one
\* document only).
C25_AsWithoutCache ==
    \A c \in PrimaryAnswered :
        (\A d \in Calls : calls[d].md \in {<<>>, calls[c].md})
            => calls[c].result = renderRoot(Parse(calls[c].md),
                                            Context(calls[c].width, WarmEnv))

\* C26: once ensureInitialized has completed, the flag stays true and the
\* parser, the highlighter and the ANSI renderer stay in place, whatever the
\* other calls do.
C26_InitializedStays ==
    [][initialized => /\ initialized'
                      /\ parserProcessor' # Null
                      /\ shikiHighlighter' # Null
                      /\ shikiAnsi' # Null]_vars

\* the entries of a map, without their order
Entries(map) == {<<map[i].k, map[i].v>> : i \in 1..Len(map)}

\* C27: a call that fails in the primary pipeline and is answered by the
\* legacy pipeline leaves the entries of renderCache as they are (neither
\* its failing nor the legacy pipeline adds, removes or changes one), and
\* every value of renderCache is what the walker gave in a call that the
\* primary pipeline answered.
C27_LegacyNotCached ==
    /\ [][\A c \in Calls :
             (calls'[c].pc = "legacy" \/ calls'[c].via = "legacy") /\ calls'[c] # calls[c]
                => Entries(renderCache') = Entries(renderCache)]_vars
    /\ [](\A i \in 1..Len(renderCache) :
             \E c \in PrimaryAnswered :
                 calls[c].walked /\ calls[c].result = renderCache[i].v)

\* the legacy pipeline has answered a call that failed in the primary
\* pipeline after its lookups, while the render cache held an entry
C27_Witness ==
    \E c \in Calls :
        /\ calls[c].pc = "done" /\ calls[c].via = "legacy"
        /\ calls[c].outcome = "returned"
        /\ last = Event("render", c, calls[c].width)
        /\ renderCache # <<>>

(***************************************************************************)
(* The claim C28, read on the runs of the agent.                           *)
(***************************************************************************)
ErrorObservations == {"error: Unknown tool", "error: SyntaxError", "error: thrown"}

\* the tool messages of the step at hand
ToolMessages ==
    SelectSeq(SubSeq(messages, stepBase + 1, Len(messages)), LAMBDA m : m.role = "tool")

\* C28: a tool call that names an unregistered tool, whose arguments are no
\* JSON or whose executor throws never ends the run: every call of a step
\* the loop has visited has its tool message, in the order of the calls,
\* which holds an error observation for such a call; an executor that throws
\* leaves the run with that message appended and going on; and the run never
\* ends but by an answer or, with the steps used up, by the step-limit
\* message.
C28_ToolErrorsObserved ==
    /\ [](toolCalls # <<>>
            => /\ Len(ToolMessages) = Len(toolCalls) - Len(pending)
               /\ \A i \in 1..Len(ToolMessages) :
                     /\ ToolMessages[i].id = toolCalls[i].id
                     /\ ToolMessages[i].name = toolCalls[i].name
                     /\ toolCalls[i].name \notin Registered
                           => ToolMessages[i].content = "error: Unknown tool"
                     /\ (toolCalls[i].name \in Registered /\ toolCalls[i].args # "json")
                           => ToolMessages[i].content = "error: SyntaxError"
                     /\ Executes(toolCalls[i])
                           => ToolMessages[i].content \in {"result", "error: thrown"})
    /\ [](runPc = "done"
            => /\ runResult \in Answers \cup {"Computed", LimitMessage}
               /\ runResult = LimitMessage => step = maxSteps)
    /\ [][ToolSettles("thrown")
            => /\ Len(messages') > Len(messages)
               /\ \E i \in (Len(messages) + 1)..Len(messages') :
                     /\ messages'[i].role = "tool"
                     /\ messages'[i].id = Head(pending).id
                     /\ messages'[i].content = "error: thrown"
               /\ pending' # <<>> \/ step' = step + 1]_vars

\* a step with a call of an unregistered tool and a call whose executor
\* threw is over, and the LLM was called again after it
C28_Witness ==
    /\ llmCalls = 2
    /\ Len(toolCalls) = 2 /\ pending = <<>>
    /\ \E i, j \in 1..Len(messages) :
          /\ i < j /\ j <= stepBase
          /\ messages[i].content = "error: Unknown tool"
          /\ messages[j].content = "error: thrown"

(***************************************************************************)
(* The claim C24, read on TokenSpec.                                       *)
(***************************************************************************)

\* the colour the token should get: its color, else that of its styles,
\* else the hex colour its inline style holds
WantedColor ==
    IF tokIn.color # <<>> THEN tokIn.color
    ELSE IF tokIn.stylesColor # <<>> THEN tokIn.stylesColor
    ELSE (CHOOSE h \in HtmlStyles : h.style = tokIn.htmlStyle).color

\* the escapes of the styled token: those before and those after its content
Escapes == { tokOut[1][i] : i \in 1..Len(tokOut[1]) } \ {"x"}

\* bit k of fontStyle, a missing fontStyle having none
FontBit(k) ==
    /\ tokIn.fontStyle # <<>>
    /\ \E q \in -8..8 : \E r \in 0..((2 ^ k) - 1) :
          tokIn.fontStyle[1] = (2 * q + 1) * (2 ^ k) + r

\* C24: the colour of a token is token.color if it is there, else
\* token.styles.color if it is there, else the hex colour of token.htmlStyle,
\* else none; italic, bold and underline are applied exactly when bit 0, bit
\* 1 and bit 2 of fontStyle are set, each whatever the other two and the
\* colour are.
C24_TokenStyle ==
    tokOut # <<>>
      => /\ \A c \in {Red, Lime, Blue, Long} :
               HexOpen(c) \in Escapes <=> WantedColor = <<c>>
         /\ "</fg>" \in Escapes <=> WantedColor # <<>>
         /\ {"<i>", "</i>"} \subseteq Escapes <=> FontBit(0)
         /\ {"<i>", "</i>"} \cap Escapes # {} <=> FontBit(0)
         /\ {"<b>", "</b>"} \subseteq Escapes <=> FontBit(1)
         /\ {"<b>", "</b>"} \cap Escapes # {} <=> FontBit(1)
         /\ {"<u>", "</u>"} \subseteq Escapes <=> FontBit(2)
         /\ {"<u>", "</u>"} \cap Escapes # {} <=> FontBit(2)

\* a token without color and styles, its colour in its inline style, italic
\* and underlined but not bold, has been styled
C24_Witness ==
    /\ tokOut # <<>>
    /\ tokIn.color = <<>> /\ tokIn.stylesColor = <<>> /\ tokIn.htmlStyle = <<StyleLong>>
    /\ tokIn.fontStyle = <<5>>
    /\ tokOut[1] = <<"<hex #ABCDEF12>", "<i>", "<u>", "x", "</u>", "</i>", "</fg>">>

(***************************************************************************)
(* The claim C30, read on CliSpec.                                         *)
(***************************************************************************)

\* value is text without the white space it begins and ends with
IsTrimOf(value, text) ==
    /\ value = <<>> \/ (value[1] \notin WhiteSpace /\ value[Len(value)] \notin WhiteSpace)
    /\ \E i \in 0..Len(text) :
          /\ i + Len(value) <= Len(text)
          /\ SubSeq(text, i + 1, i + Len(value)) = value
          /\ \A k \in 1..Len(text) :
                (k <= i \/ k > i + Len(value)) => text[k] \in WhiteSpace

C21_LatestWidth ==
    (jobs = <<>> /\ submitPc = "idle")
        => \A i \in Assistants(history) :
              history[i].rendered # <<>> => history[i].width = stdoutColumns - 4

\* C29: a message that is in the history stays in it, at its place: no step
\* makes the history shorter or puts another message where one was.
C29_HistoryKept ==
    [][/\ Len(history') >= Len(history)
       /\ \A i \in 1..Len(history) :
             /\ history'[i].role = history[i].role
             /\ history'[i].content = history[i].content]_vars

====
